---- MODULE Spec2Model ----
(***************************************************************************)
(* Verification model of unturned-data:                                    *)
(*   - dat_parser.py   : the .dat text-format parser                       *)
(*   - map_resolver.py : resolve_spawn_table_items                         *)
(*   - exporter.py     : _resolve_blueprint_ids and its two call sites     *)
(* Python strings are sequences of one-character strings; Python indices   *)
(* are 0-based, the sequences here are 1-based (index i here is i-1 there).*)
(***************************************************************************)
EXTENDS Integers, Sequences, FiniteSets, TLC

VARIABLES
    lin, lphase, lout,          \* line level: one input line / token, the step taken, its result
    text, dphase, dout,         \* document level: the lines given to parse_dat, its outcome
    tables_by_id, table_id,     \* resolve_spawn_table_items: its arguments
    stack, pend,                \* the running calls (innermost last), the call just made
    visited, expanded,          \* the shared visited set; how often each table's loop was started
    sphase, sresult, steps,     \* "run" / "done", the value returned at top level, steps taken
    base_entries, map_entries,  \* export_schema_c: the entries of the base content and of each map
    bp0, resolved, diags,       \* the blueprint inputs as parsed; the sources whose
                                \* _resolve_blueprint_ids call has run; its warnings per source
    by_id,                      \* the by_id table of _build_guid_index, once built
    item, owner_guid, id_to_guid,   \* _parse_item_ref: its arguments
    iphase, iout,               \* "in" / "parsed" / "raised", the tuple returned
    graph_entries, crafting_blacklists, map_source_prefixes,  \* build_crafting_graph: its arguments
    gphase, nodes, edges,       \* "in" / "built", the graph returned
    call, cphase, cret          \* a call of one of the small functions: its name and
                                \* arguments, "in" / "done", the value it leaves

parseVars == <<lin, lphase, lout, text, dphase, dout>>
spawnVars == <<tables_by_id, table_id, stack, pend, visited, expanded, sphase, sresult, steps>>
exportVars == <<base_entries, map_entries, bp0, resolved, diags, by_id>>
itemVars == <<item, owner_guid, id_to_guid, iphase, iout>>
graphVars == <<graph_entries, crafting_blacklists, map_source_prefixes, gphase, nodes, edges>>
callVars == <<call, cphase, cret>>
vars == <<parseVars, spawnVars, exportVars, itemVars, graphVars, callVars>>

(***************************************************************************)
(* Bounds                                                                  *)
(***************************************************************************)
MaxCommentParts == 5
MaxTokParts == 3
MaxLines == 4
MaxTable == 3
MaxTotalEntries == 3
MaxContent == 4
MaxRefEntries == 1
MaxRefs == 2
MaxTailParts == 4
MaxBpRefs == 3
MaxGEntries == 2
MaxGBps == 2
MaxGuidEntries == 2
MaxMerged == 2
MaxRows == 5

(***************************************************************************)
(* Character-level helpers (Python str methods used by the source)         *)
(***************************************************************************)
\* the characters str.strip() removes that the input alphabet contains
IsSpace(c) == c \in {" ", "\t"}

IsDigit(c) == c \in {"0", "1", "2", "3", "4", "5", "6", "7", "8", "9"}

DigitVal(c) ==
    CASE c = "0" -> 0 [] c = "1" -> 1 [] c = "2" -> 2 [] c = "3" -> 3
      [] c = "4" -> 4 [] c = "5" -> 5 [] c = "6" -> 6 [] c = "7" -> 7
      [] c = "8" -> 8 [] c = "9" -> 9

UpperChars == <<"A", "B", "C", "D", "E", "F", "G", "H", "I", "J", "K", "L", "M",
                "N", "O", "P", "Q", "R", "S", "T", "U", "V", "W", "X", "Y", "Z">>
LowerChars == <<"a", "b", "c", "d", "e", "f", "g", "h", "i", "j", "k", "l", "m",
                "n", "o", "p", "q", "r", "s", "t", "u", "v", "w", "x", "y", "z">>

LowerChar(c) ==
    IF \E i \in 1..26 : UpperChars[i] = c
    THEN LowerChars[CHOOSE i \in 1..26 : UpperChars[i] = c]
    ELSE c

\* str.lower()
Lower(s) == [i \in 1..Len(s) |-> LowerChar(s[i])]

\* s[a:b] with 0-based Python bounds a <= b <= len(s)
Slice(s, a, b) == SubSeq(s, a + 1, b)

RECURSIVE lstrip(_)
lstrip(s) == IF s # <<>> /\ IsSpace(Head(s)) THEN lstrip(Tail(s)) ELSE s

RECURSIVE rstrip(_)
rstrip(s) ==
    IF s # <<>> /\ IsSpace(s[Len(s)]) THEN rstrip(SubSeq(s, 1, Len(s) - 1)) ELSE s

strip(s) == rstrip(lstrip(s))

RECURSIVE Concat(_)
Concat(ss) == IF ss = <<>> THEN <<>> ELSE Head(ss) \o Concat(Tail(ss))

\* all sequences of length 0..n over the set S
SeqsUpTo(S, n) == UNION {[1..k -> S] : k \in 0..n}

(***************************************************************************)
(* dat_parser._strip_comment                                               *)
(***************************************************************************)
\* the loop of _strip_comment at 0-based position i with quote state in_quote
RECURSIVE strip_comment_loop(_, _, _)
strip_comment_loop(line, i, in_quote) ==
    IF ~(i < Len(line)) THEN line
    ELSE LET c == line[i + 1] IN
         IF c = "\"" THEN strip_comment_loop(line, i + 1, ~in_quote)
         ELSE IF c = "/" /\ ~in_quote /\ i + 1 < Len(line) /\ line[i + 2] = "/"
              THEN rstrip(Slice(line, 0, i))
              ELSE strip_comment_loop(line, i + 1, in_quote)

\* variant: the quote state is not consulted, the first // anywhere starts the comment
strip_comment_ignoring_quotes(line) ==
    IF \E i \in 1..(Len(line) - 1) : line[i] = "/" /\ line[i + 1] = "/"
    THEN rstrip(SubSeq(line, 1, (CHOOSE i \in 1..(Len(line) - 1) :
                    /\ line[i] = "/" /\ line[i + 1] = "/"
                    /\ \A j \in 1..(i - 1) : ~(line[j] = "/" /\ line[j + 1] = "/")) - 1))
    ELSE line

_strip_comment(line) == strip_comment_loop(line, 0, FALSE)

(***************************************************************************)
(* Python values: every value is a record of the same shape                *)
(*   t = "bool"  : n = 1 (True) or 0 (False)                               *)
(*   t = "int"   : n = the integer                                         *)
(*   t = "float" : n * 10^e, normalised (n not a multiple of 10, or 0);     *)
(*                 inf / nan keep their name in s                          *)
(*   t = "str"   : s = the characters                                      *)
(*   t = "map"   : kids = the (key, value) pairs in insertion order        *)
(*   t = "list"  : kids = the elements (k unused)                          *)
(***************************************************************************)
PyVal(t, n, e, s, kids) == [t |-> t, n |-> n, e |-> e, s |-> s, kids |-> kids]
PyBool(b) == PyVal("bool", IF b THEN 1 ELSE 0, 0, <<>>, <<>>)
PyTrue == PyBool(TRUE)
PyInt(n) == PyVal("int", n, 0, <<>>, <<>>)
PyFloat(n, e) == PyVal("float", n, e, <<>>, <<>>)
PyFloatSpecial(name) == PyVal("float", 0, 0, name, <<>>)
PyStr(s) == PyVal("str", 0, 0, s, <<>>)
PyMap(kids) == PyVal("map", 0, 0, <<>>, kids)
PyList(kids) == PyVal("list", 0, 0, <<>>, kids)
Pair(k, v) == [k |-> k, val |-> v]

DictHas(d, k) == \E i \in 1..Len(d) : d[i].k = k
DictGet(d, k) == d[CHOOSE i \in 1..Len(d) : d[i].k = k].val

\* variant: a present key keeps its first value (dict.setdefault)
DictSetFirstWins(d, k, v) == IF DictHas(d, k) THEN d ELSE Append(d, Pair(k, v))

\* result[key] = value : a present key keeps its place and takes the new value
DictSet(d, k, v) ==
    IF DictHas(d, k)
    THEN [i \in 1..Len(d) |-> IF d[i].k = k THEN Pair(k, v) ELSE d[i]]
    ELSE Append(d, Pair(k, v))

(***************************************************************************)
(* int(val) and float(val) of the Python runtime, as used by _coerce_value *)
(***************************************************************************)
\* digit (digit | "_" digit)* : the digit part of int and float literals
RECURSIVE IsDigitPart(_)
IsDigitPart(s) ==
    /\ s # <<>>
    /\ IsDigit(s[1])
    /\ \/ Len(s) = 1
       \/ IsDigitPart(Tail(s))
       \/ Len(s) >= 3 /\ s[2] = "_" /\ IsDigitPart(Tail(Tail(s)))

RECURSIVE DigitsVal(_, _)
DigitsVal(s, acc) ==
    IF s = <<>> THEN acc
    ELSE IF s[1] = "_" THEN DigitsVal(Tail(s), acc)
    ELSE DigitsVal(Tail(s), 10 * acc + DigitVal(s[1]))

NumDigits(s) == Cardinality({i \in 1..Len(s) : IsDigit(s[i])})

HasSign(s) == s # <<>> /\ s[1] \in {"+", "-"}
Unsigned(s) == IF HasSign(s) THEN Tail(s) ELSE s
SignOf(s) == IF s # <<>> /\ s[1] = "-" THEN -1 ELSE 1

\* int(val) does not raise ValueError
IsIntLit(val) == IsDigitPart(Unsigned(strip(val)))
IntVal(val) == SignOf(strip(val)) * DigitsVal(Unsigned(strip(val)), 0)

IndexOfChar(s, cs) ==
    IF \E i \in 1..Len(s) : s[i] \in cs
    THEN CHOOSE i \in 1..Len(s) : s[i] \in cs /\ \A j \in 1..(i - 1) : s[j] \notin cs
    ELSE 0

\* mantissa: digitpart [ "." [digitpart] ]  |  "." digitpart
IsMantissa(m) ==
    LET dot == IndexOfChar(m, {"."}) IN
    IF dot = 0 THEN IsDigitPart(m)
    ELSE LET ip == SubSeq(m, 1, dot - 1)
             fp == SubSeq(m, dot + 1, Len(m))
         IN /\ ip # <<>> \/ fp # <<>>
            /\ ip = <<>> \/ IsDigitPart(ip)
            /\ fp = <<>> \/ IsDigitPart(fp)

IsExponent(x) == IsDigitPart(Unsigned(x))

FloatSpecials == {<<"i", "n", "f">>, <<"n", "a", "n">>,
                  <<"i", "n", "f", "i", "n", "i", "t", "y">>}

IsDecimalFloat(u) ==
    LET ex == IndexOfChar(u, {"e", "E"}) IN
    IF ex = 0 THEN IsMantissa(u)
    ELSE IsMantissa(SubSeq(u, 1, ex - 1)) /\ IsExponent(SubSeq(u, ex + 1, Len(u)))

\* float(val) does not raise ValueError
IsFloatLit(val) ==
    LET u == Unsigned(strip(val)) IN
    Lower(u) \in FloatSpecials \/ IsDecimalFloat(u)

RECURSIVE Normalise(_, _)
Normalise(n, e) ==
    IF n = 0 THEN PyFloat(0, 0)
    ELSE IF n % 10 = 0 THEN Normalise(n \div 10, e + 1)
    ELSE PyFloat(n, e)

FloatVal(val) ==
    LET sv == strip(val)
        u == Unsigned(sv)
        sgn == SignOf(sv)
    IN IF Lower(u) \in FloatSpecials
       THEN PyFloatSpecial(IF Lower(u) = <<"n", "a", "n">> THEN <<"n", "a", "n">>
                           ELSE IF sgn < 0 THEN <<"-", "i", "n", "f">>
                           ELSE <<"i", "n", "f">>)
       ELSE LET ex == IndexOfChar(u, {"e", "E"})
                m == IF ex = 0 THEN u ELSE SubSeq(u, 1, ex - 1)
                x == IF ex = 0 THEN <<>> ELSE SubSeq(u, ex + 1, Len(u))
                dot == IndexOfChar(m, {"."})
                ip == IF dot = 0 THEN m ELSE SubSeq(m, 1, dot - 1)
                fp == IF dot = 0 THEN <<>> ELSE SubSeq(m, dot + 1, Len(m))
                xv == IF x = <<>> THEN 0 ELSE SignOf(x) * DigitsVal(Unsigned(x), 0)
            IN Normalise(sgn * DigitsVal(ip \o fp, 0), xv - NumDigits(fp))

(***************************************************************************)
(* dat_parser._coerce_value                                                *)
(***************************************************************************)
\* variant: the quotes stay on the value
keep_outer_quotes(val) == val

\* lines 53-54: one layer of surrounding double quotes is removed
strip_outer_quotes(val) ==
    IF Len(val) >= 2 /\ val[1] = "\"" /\ val[Len(val)] = "\""
    THEN Slice(val, 1, Len(val) - 1)
    ELSE val

\* lines 55-67: bool, then int, then float, then the string itself
coerce_stripped(val) ==
    IF Lower(val) = <<"t", "r", "u", "e">> THEN PyBool(TRUE)
    ELSE IF Lower(val) = <<"f", "a", "l", "s", "e">> THEN PyBool(FALSE)
    ELSE IF IsIntLit(val) THEN PyInt(IntVal(val))
    ELSE IF IsFloatLit(val) THEN FloatVal(val)
    ELSE PyStr(val)

_coerce_value(val) ==
    IF val = <<>> THEN PyStr(<<>>)
    ELSE coerce_stripped(strip_outer_quotes(val))

(***************************************************************************)
(* dat_parser._split_key_value                                             *)
(* raised = TRUE models the ValueError of line.index('"', 1)               *)
(***************************************************************************)
KV(key, hasval, value, raised) ==
    [key |-> key, hasval |-> hasval, value |-> value, raised |-> raised]

_split_key_value(line0) ==
    LET line == strip(line0) IN
    IF line = <<>> THEN KV(<<>>, FALSE, <<>>, FALSE)
    ELSE IF line[1] = "\""
    THEN IF \E j \in 2..Len(line) : line[j] = "\""
         THEN LET close == (CHOOSE j \in 2..Len(line) :
                              line[j] = "\"" /\ \A h \in 2..(j - 1) : line[h] # "\"") - 1
                  key == Slice(line, 1, close)
                  rest == strip(Slice(line, close + 1, Len(line)))
              IN IF rest = <<>> THEN KV(key, FALSE, <<>>, FALSE)
                 ELSE KV(key, TRUE, rest, FALSE)
         ELSE KV(<<>>, FALSE, <<>>, TRUE)
    ELSE LET space_idx == IndexOfChar(line, {" ", "\t"}) - 1 IN
         IF space_idx < 0 THEN KV(line, FALSE, <<>>, FALSE)
         ELSE LET key == Slice(line, 0, space_idx)
                  rest == strip(Slice(line, space_idx, Len(line)))
              IN IF rest = <<>> THEN KV(key, FALSE, <<>>, FALSE)
                 ELSE KV(key, TRUE, rest, FALSE)

(***************************************************************************)
(* dat_parser._next_content_line, _parse_mapping, _parse_array             *)
(* Line indices are 1-based: index i here is Python's i - 1.               *)
(***************************************************************************)
OpenBracket == <<"[">>
OpenBrace == <<"{">>
CloseBracket == <<"]">>
CloseBrace == <<"}">>

\* a line as the parser loops see it: comment removed, then stripped
content(l) == strip(_strip_comment(l))

NoLine == [found |-> FALSE, line |-> <<>>, idx |-> 0]

\* variant: only the line right after the key is looked at, blank or not
next_line_no_skip(lines, start) ==
    IF start <= Len(lines) /\ content(lines[start]) # <<>>
    THEN [found |-> TRUE, line |-> content(lines[start]), idx |-> start]
    ELSE NoLine

_next_content_line(lines, start) ==
    IF \E i \in start..Len(lines) : content(lines[i]) # <<>>
    THEN LET i == CHOOSE i \in start..Len(lines) :
                    /\ content(lines[i]) # <<>>
                    /\ \A j \in start..(i - 1) : content(lines[j]) = <<>>
         IN [found |-> TRUE, line |-> content(lines[i]), idx |-> i]
    ELSE NoLine

\* what a parse call hands back: the node, the index to resume at, whether an
\* exception left the call, (mapping only) the assignments result[key] = v
\* of this nesting level in the order they were executed, and the positions
\* the cursor i took, in order, in this call and the calls nested in it
Ret(res, i, raised, log, trace) ==
    [res |-> res, i |-> i, raised |-> raised, log |-> log, trace |-> trace]

\* one pass of a while loop looking at lines[i]
Step(i) == [kind |-> "step", open |-> 0, i |-> i]
\* parsed, i = _parse_...(lines, open + 1): the nested call for the block
\* opened on line open handed back index i
Returned(open, i) == [kind |-> "ret", open |-> open, i |-> i]

\* variant: the closing line is left to the caller
at_close(i) == i

\* return result, i + 1 on a closing line
after_close(i) == i + 1

RECURSIVE parse_mapping_loop(_, _, _, _, _)
RECURSIVE parse_array_loop(_, _, _, _)

_parse_mapping(lines, start) == parse_mapping_loop(lines, start, <<>>, <<>>, <<>>)
_parse_array(lines, start) == parse_array_loop(lines, start, <<>>, <<>>)

parse_mapping_loop(lines, i, result, log, trace) ==
    IF ~(i <= Len(lines)) THEN Ret(PyMap(result), i, FALSE, log, trace)
    ELSE
    LET line == content(lines[i])
        seen == Append(trace, Step(i))
    IN
    IF line = <<>> THEN parse_mapping_loop(lines, i + 1, result, log, seen)
    ELSE IF line \in {CloseBrace, CloseBracket}
    THEN Ret(PyMap(result), after_close(i), FALSE, log, seen)
    ELSE
    LET kv == _split_key_value(line) IN
    IF kv.raised THEN Ret(PyMap(result), i, TRUE, log, seen)
    ELSE IF kv.key = <<>> THEN parse_mapping_loop(lines, i + 1, result, log, seen)
    ELSE IF kv.hasval /\ kv.value \in {OpenBracket, OpenBrace}
    THEN \* Case 1: opening bracket on the line of the key
         LET sub == IF kv.value = OpenBracket THEN _parse_array(lines, i + 1)
                    ELSE _parse_mapping(lines, i + 1)
         IN IF sub.raised THEN Ret(PyMap(result), sub.i, TRUE, log, seen \o sub.trace)
            ELSE parse_mapping_loop(lines, sub.i, DictSet(result, kv.key, sub.res),
                                    Append(log, Pair(kv.key, sub.res)),
                                    Append(seen \o sub.trace, Returned(i, sub.i)))
    ELSE IF ~kv.hasval
    THEN \* Case 2: bare key
         LET nxt == _next_content_line(lines, i + 1) IN
         IF nxt.found /\ nxt.line \in {OpenBracket, OpenBrace}
         THEN LET sub == IF nxt.line = OpenBracket THEN _parse_array(lines, nxt.idx + 1)
                         ELSE _parse_mapping(lines, nxt.idx + 1)
              IN IF sub.raised THEN Ret(PyMap(result), sub.i, TRUE, log, seen \o sub.trace)
                 ELSE parse_mapping_loop(lines, sub.i, DictSet(result, kv.key, sub.res),
                                         Append(log, Pair(kv.key, sub.res)),
                                         Append(seen \o sub.trace, Returned(nxt.idx, sub.i)))
         ELSE parse_mapping_loop(lines, i + 1, DictSet(result, kv.key, PyTrue),
                                 Append(log, Pair(kv.key, PyTrue)), seen)
    ELSE \* Case 3: key with a value
         parse_mapping_loop(lines, i + 1, DictSet(result, kv.key, _coerce_value(kv.value)),
                            Append(log, Pair(kv.key, _coerce_value(kv.value))), seen)

parse_array_loop(lines, i, result, trace) ==
    IF ~(i <= Len(lines)) THEN Ret(PyList(result), i, FALSE, <<>>, trace)
    ELSE
    LET line == content(lines[i])
        seen == Append(trace, Step(i))
    IN
    IF line = <<>> THEN parse_array_loop(lines, i + 1, result, seen)
    ELSE IF line = CloseBracket THEN Ret(PyList(result), after_close(i), FALSE, <<>>, seen)
    ELSE IF line = OpenBrace
    THEN LET sub == _parse_mapping(lines, i + 1) IN
         IF sub.raised THEN Ret(PyList(result), sub.i, TRUE, <<>>, seen \o sub.trace)
         ELSE parse_array_loop(lines, sub.i, Append(result, Pair(<<>>, sub.res)),
                               Append(seen \o sub.trace, Returned(i, sub.i)))
    ELSE IF line[1] = "{" /\ line[Len(line)] = "}"
    THEN \* inline object {...}: parsed as a one-line text of its own
         LET inner == strip(Slice(line, 1, Len(line) - 1))
             sub == _parse_mapping(<<inner>>, 1)
         IN IF sub.raised THEN Ret(PyList(result), i, TRUE, <<>>, seen)
            ELSE parse_array_loop(lines, i + 1, Append(result, Pair(<<>>, sub.res)), seen)
    ELSE parse_array_loop(lines, i + 1, Append(result, Pair(<<>>, _coerce_value(line))), seen)

\* parse_dat on the lines of the text (text.splitlines())
parse_dat(lines) == _parse_mapping(lines, 1)

(***************************************************************************)
(* Inputs of the line-level and document-level specifications              *)
(***************************************************************************)
CommentFrags == {<<"\"">>, <<"/", "/">>, <<"/">>, <<"a">>, <<" ">>}
TokFrags == {<<"t", "r", "u", "e">>, <<"T", "r", "U", "e">>, <<"F", "a", "l", "s", "e">>,
             <<"1">>, <<"3">>, <<"0">>, <<".">>, <<"-">>, <<"e">>, <<"_">>,
             <<"i", "n", "f">>, <<"\"">>, <<" ">>, <<"x">>}

CommentLines(n) == {Concat(ps) : ps \in SeqsUpTo(CommentFrags, n)}
Tokens(n) == {Concat(ps) : ps \in SeqsUpTo(TokFrags, n)}
LineInputs(nc, nt) == CommentLines(nc) \cup Tokens(nt)

LinePool == {
    <<"K">>,
    <<"K", " ", "1">>,
    <<"J", " ", "2">>,
    <<"[">>,
    <<"{">>,
    <<"]">>,
    <<"}">>,
    <<"/", "/", " ", "c">>,
    <<"K", " ", "[">>,
    <<"\"", "K">> }

Texts(n) == SeqsUpTo(LinePool, n)

Quote(tok) == <<"\"">> \o tok \o <<"\"">>

NoOut == [kind |-> "none"]

(***************************************************************************)
(* Line-level specification: one line / token, one function applied        *)
(***************************************************************************)
SpawnIdle ==
    /\ tables_by_id = <<>> /\ table_id = 0 /\ stack = <<>> /\ pend = <<>>
    /\ visited = {} /\ expanded = <<>> /\ sphase = "idle" /\ sresult = {} /\ steps = 0
ExportIdle ==
    /\ base_entries = <<>> /\ map_entries = <<>> /\ bp0 = <<>>
    /\ resolved = {} /\ diags = <<>> /\ by_id = NoOut
CallIdle == call = <<>> /\ cphase = "idle" /\ cret = NoOut
ItemIdle ==
    /\ item = <<>> /\ owner_guid = <<>> /\ id_to_guid = <<>>
    /\ iphase = "idle" /\ iout = NoOut
GraphIdle ==
    /\ graph_entries = <<>> /\ crafting_blacklists = <<>> /\ map_source_prefixes = <<>>
    /\ gphase = "idle" /\ nodes = <<>> /\ edges = <<>>
DocIdle == text = <<>> /\ dphase = "idle" /\ dout = NoOut
LineIdle == lin = <<>> /\ lphase = "idle" /\ lout = NoOut

InitLine ==
    /\ lin \in LineInputs(MaxCommentParts, MaxTokParts)
    /\ lphase = "in"
    /\ lout = NoOut
    /\ DocIdle
    /\ SpawnIdle
    /\ ExportIdle
    /\ ItemIdle
    /\ GraphIdle
    /\ CallIdle

StripComment ==
    /\ lphase = "in"
    /\ lphase' = "stripped"
    /\ lout' = [kind |-> "strip", res |-> _strip_comment(lin)]
    /\ UNCHANGED <<lin, text, dphase, dout, spawnVars, exportVars, itemVars, graphVars, callVars>>

CoerceValue ==
    /\ lphase = "in"
    /\ lphase' = "coerced"
    /\ lout' = [kind |-> "coerce", bare |-> _coerce_value(lin),
                quoted |-> _coerce_value(Quote(lin))]
    /\ UNCHANGED <<lin, text, dphase, dout, spawnVars, exportVars, itemVars, graphVars, callVars>>

SplitKeyValue ==
    /\ lphase = "in"
    /\ lphase' = "split"
    /\ lout' = [kind |-> "split", res |-> _split_key_value(lin)]
    /\ UNCHANGED <<lin, text, dphase, dout, spawnVars, exportVars, itemVars, graphVars, callVars>>

NextLine == StripComment \/ CoerceValue \/ SplitKeyValue

SpecLine == InitLine /\ [][NextLine]_vars

(***************************************************************************)
(* Document-level specification: parse_dat applied to a text               *)
(***************************************************************************)
InitDat ==
    /\ text \in Texts(MaxLines)
    /\ dphase = "in"
    /\ dout = NoOut
    /\ LineIdle
    /\ SpawnIdle
    /\ ExportIdle
    /\ ItemIdle
    /\ GraphIdle
    /\ CallIdle

ParseDat ==
    /\ dphase = "in"
    /\ LET r == parse_dat(text) IN
       /\ dphase' = IF r.raised THEN "raised" ELSE "parsed"
       /\ dout' = [kind |-> "parse", res |-> r.res, log |-> r.log,
                   i |-> r.i, trace |-> r.trace]
    /\ UNCHANGED <<text, lin, lphase, lout, spawnVars, exportVars, itemVars, graphVars, callVars>>

NextDat == ParseDat

SpecDat == InitDat /\ [][NextDat]_vars

(***************************************************************************)
(* map_resolver.resolve_spawn_table_items, one step per action             *)
(* A table is [table_entries]; an entry is [ref_type, ref_id].             *)
(***************************************************************************)
TableIds == 1..MaxTable
AssetIds == {42, 99}
\* an id tables_by_id has no table for
MissingId == 0

EntryKinds ==
    [ref_type : {"asset"}, ref_id : AssetIds]
        \cup [ref_type : {"spawn"}, ref_id : TableIds \cup {MissingId}]
        \cup [ref_type : {"guid"}, ref_id : {0}]

\* the ways to hand k entries to the owners 1..n in order
Owners(k, n) == {o \in [1..k -> 1..n] : \A i \in 1..(k - 1) : o[i] <= o[i + 1]}

\* the entries of owner t when flat is handed out by o
Owned(flat, o, t) ==
    LET lo == Cardinality({i \in 1..Len(flat) : o[i] < t})
        cnt == Cardinality({i \in 1..Len(flat) : o[i] = t})
    IN SubSeq(flat, lo + 1, lo + cnt)

\* tables_by_id holds a table for each id of TableIds; flat is handed out by o
TableDict(flat, o) == [t \in TableIds |-> [table_entries |-> Owned(flat, o, t)]]

\* the table the top-level call starts at: tables_by_id ranges over every
\* assignment of tables to ids, so the first id stands for any of them; or an
\* id without a table
StartIds == {1, MissingId}

NoCall == <<>>
Call(tid) == <<tid>>

Frame(tid, idx, acc) == [tid |-> tid, idx |-> idx, acc |-> acc]

InitSpawn ==
    /\ \E k \in 0..MaxTotalEntries : \E o \in Owners(k, MaxTable) :
       \E flat \in [1..k -> EntryKinds] : tables_by_id = TableDict(flat, o)
    /\ table_id \in StartIds
    /\ stack = <<>>
    /\ pend = Call(table_id)
    /\ visited = {}
    /\ expanded = [t \in TableIds |-> 0]
    /\ sphase = "run"
    /\ sresult = {}
    /\ steps = 0
    /\ LineIdle
    /\ DocIdle
    /\ ExportIdle
    /\ ItemIdle
    /\ GraphIdle
    /\ CallIdle

Top == stack[Len(stack)]
TopEntries == tables_by_id[Top.tid].table_entries
Pop == SubSeq(stack, 1, Len(stack) - 1)

\* variant: the value of a nested call is dropped instead of merged
deliver_dropping(rest, val) ==
    IF rest = <<>>
    THEN /\ sresult' = val
         /\ sphase' = "done"
         /\ stack' = rest
    ELSE /\ stack' = [rest EXCEPT ![Len(rest)] = Frame(@.tid, @.idx + 1, @.acc)]
         /\ UNCHANGED <<sresult, sphase>>

\* a call returns val to the frame below it: result |= val, next entry;
\* the outermost call returns it to the caller of resolve_spawn_table_items
Deliver(rest, val) ==
    IF rest = <<>>
    THEN /\ sresult' = val
         /\ sphase' = "done"
         /\ stack' = rest
    ELSE /\ stack' = [rest EXCEPT ![Len(rest)] =
                         Frame(@.tid, @.idx + 1, @.acc \cup val)]
         /\ UNCHANGED <<sresult, sphase>>

\* variant: the visited set is never consulted
never_visited(tid, vis) == FALSE

\* line 104: table_id in visited
already_visited(tid, vis) == tid \in vis

Calling == sphase = "run" /\ pend # NoCall

\* lines 104-105: return set()
SpawnRevisit ==
    /\ Calling
    /\ already_visited(pend[1], visited)
    /\ Deliver(stack, {})
    /\ pend' = NoCall
    /\ steps' = steps + 1
    /\ UNCHANGED <<tables_by_id, table_id, visited, expanded, parseVars, exportVars, itemVars, graphVars, callVars>>

\* lines 106-110: visited.add, tables_by_id.get gives None
SpawnMissing ==
    /\ Calling
    /\ ~already_visited(pend[1], visited)
    /\ pend[1] \notin DOMAIN tables_by_id
    /\ visited' = visited \cup {pend[1]}
    /\ Deliver(stack, {})
    /\ pend' = NoCall
    /\ steps' = steps + 1
    /\ UNCHANGED <<tables_by_id, table_id, expanded, parseVars, exportVars, itemVars, graphVars, callVars>>

\* lines 106-112: visited.add, result = set(), the loop over table_entries starts
SpawnExpand ==
    /\ Calling
    /\ ~already_visited(pend[1], visited)
    /\ pend[1] \in DOMAIN tables_by_id
    /\ visited' = visited \cup {pend[1]}
    /\ expanded' = [expanded EXCEPT ![pend[1]] = @ + 1]
    /\ stack' = Append(stack, Frame(pend[1], 1, {}))
    /\ pend' = NoCall
    /\ steps' = steps + 1
    /\ UNCHANGED <<tables_by_id, table_id, sphase, sresult, parseVars, exportVars, itemVars, graphVars, callVars>>

InLoop == sphase = "run" /\ pend = NoCall /\ stack # <<>> /\ Top.idx <= Len(TopEntries)

\* lines 114-115
SpawnAsset ==
    /\ InLoop
    /\ TopEntries[Top.idx].ref_type = "asset"
    /\ stack' = [stack EXCEPT ![Len(stack)] =
                    Frame(@.tid, @.idx + 1, @.acc \cup {TopEntries[Top.idx].ref_id})]
    /\ steps' = steps + 1
    /\ UNCHANGED <<tables_by_id, table_id, pend, visited, expanded, sphase, sresult, parseVars, exportVars, itemVars, graphVars, callVars>>

\* lines 116-119: the recursive call is made
SpawnRecurse ==
    /\ InLoop
    /\ TopEntries[Top.idx].ref_type = "spawn"
    /\ pend' = Call(TopEntries[Top.idx].ref_id)
    /\ steps' = steps + 1
    /\ UNCHANGED <<tables_by_id, table_id, stack, visited, expanded, sphase, sresult, parseVars, exportVars, itemVars, graphVars, callVars>>

\* line 120: any other ref_type leaves the result alone
SpawnOther ==
    /\ InLoop
    /\ TopEntries[Top.idx].ref_type \notin {"asset", "spawn"}
    /\ stack' = [stack EXCEPT ![Len(stack)] = Frame(@.tid, @.idx + 1, @.acc)]
    /\ steps' = steps + 1
    /\ UNCHANGED <<tables_by_id, table_id, pend, visited, expanded, sphase, sresult, parseVars, exportVars, itemVars, graphVars, callVars>>

\* line 122: return result
SpawnReturn ==
    /\ sphase = "run" /\ pend = NoCall /\ stack # <<>>
    /\ Top.idx > Len(TopEntries)
    /\ Deliver(Pop, Top.acc)
    /\ steps' = steps + 1
    /\ UNCHANGED <<tables_by_id, table_id, pend, visited, expanded, parseVars, exportVars, itemVars, graphVars, callVars>>

NextSpawn ==
    \/ SpawnRevisit
    \/ SpawnMissing
    \/ SpawnExpand
    \/ SpawnAsset
    \/ SpawnRecurse
    \/ SpawnOther
    \/ SpawnReturn

SpecSpawn == InitSpawn /\ [][NextSpawn]_vars

(***************************************************************************)
(* exporter._resolve_blueprint_ids and its call sites in export_schema_c   *)
(* An entry is [id, source_path, guid, blueprints]; source_path is kept as *)
(* its top-level directory.  A blueprint reference is [form, s]: the       *)
(* string s itself (form "str") or a tool dict whose "ID" value is s (form *)
(* "dict"; its other keys are never touched by the resolver).              *)
(***************************************************************************)
GuidLen == 32
HexChars == {"0", "1", "2", "3", "4", "5", "6", "7", "8", "9", "a", "b", "c", "d", "e", "f"}

Maps == {"mapA", "mapB"}
Sources == {"base"} \cup Maps
Dirs == {"Items", "Spawns"}

\* _SOURCE_DIR_TO_NAMESPACE on the directories above
_get_namespace(source_path) ==
    CASE source_path = "Items" -> "items"
      [] source_path = "Spawns" -> "spawns"
      [] source_path = "Vehicles" -> "vehicles"

\* the guid of the k-th entry of a source: 32 hex characters, one per entry
SourceChar(src) == CASE src = "base" -> "b" [] src = "mapA" -> "a" [] src = "mapB" -> "c"
GuidOf(src, k) ==
    [i \in 1..GuidLen |-> IF i = 1 THEN SourceChar(src)
                          ELSE IF i = 2 THEN (<<"1", "2", "3", "4", "5">>)[k]
                          ELSE "0"]

StrRef(s) == [form |-> "str", s |-> s]
DictRef(s) == [form |-> "dict", s |-> s]
ThisRef == StrRef(<<"t", "h", "i", "s">>)
XSep == <<" ", "x", " ">>

\* references a blueprint may hold: id 1 bare, with a quantity and as a tool
\* dict, an id no entry has (9) bare and with a quantity, and "this"
IdRefs == {
    StrRef(<<"1">>),
    StrRef(<<"1", " ", "x", " ", "2">>),
    DictRef(<<"1">>) }
RefPool == IdRefs \cup {
    StrRef(<<"9">>),
    StrRef(<<"9", " ", "x", " ", "3">>),
    ThisRef }

\* ids an entry may carry: 0 is an entry without an id
IdPool == {0, 1}
\* an entry without an id is not indexed, whatever its directory
EntryShapes ==
    {[id |-> 0, source_path |-> "Items"]} \cup [id : IdPool \ {0}, source_path : Dirs]

MkEntries(src, shapes, bp) ==
    [k \in 1..Len(shapes) |->
        [id |-> shapes[k].id, source_path |-> shapes[k].source_path,
         guid |-> GuidOf(src, k),
         blueprints |-> IF k = 1 THEN <<[inputs |-> bp, outputs |-> <<ThisRef>>]>>
                        ELSE <<>>]]

\* str.split(sep) for a non-empty separator
StartsWith(s, pre) == Len(s) >= Len(pre) /\ SubSeq(s, 1, Len(pre)) = pre
RECURSIVE SplitOn(_, _, _)
SplitOn(s, sep, cur) ==
    IF s = <<>> THEN <<cur>>
    ELSE IF StartsWith(s, sep)
    THEN <<cur>> \o SplitOn(SubSeq(s, Len(sep) + 1, Len(s)), sep, <<>>)
    ELSE SplitOn(Tail(s), sep, Append(cur, Head(s)))

\* str.isdigit() on the input alphabet
isdigit(s) == s # <<>> /\ \A i \in 1..Len(s) : IsDigit(s[i])

\* _GUID_RE = ^[0-9a-f]{32}$
IsGuid(s) == Len(s) = GuidLen /\ \A i \in 1..Len(s) : s[i] \in HexChars

\* lines 98-107, one entry
index_entry(id_map, e, src) ==
    IF e.id = 0 \/ e.guid = <<>> THEN id_map
    ELSE LET ns == _get_namespace(e.source_path)
             by_ns == IF DictHas(id_map, e.id) THEN DictGet(id_map, e.id) ELSE <<>>
             by_src == IF DictHas(by_ns, ns) THEN DictGet(by_ns, ns) ELSE <<>>
         IN DictSet(id_map, e.id, DictSet(by_ns, ns, DictSet(by_src, src, e.guid)))

RECURSIVE _index(_, _, _)
_index(id_map, entry_list, src) ==
    IF entry_list = <<>> THEN id_map
    ELSE _index(index_entry(id_map, Head(entry_list), src), Tail(entry_list), src)

\* variant: the extra entries are indexed under the referencing source
index_extra_under_source(entries, source, extra_entries) ==
    _index(_index(<<>>, entries, source), extra_entries, source)

\* lines 109-112: the entries under their source, the extra entries under "base"
build_id_map(entries, source, extra_entries) ==
    _index(_index(<<>>, entries, source), extra_entries, "base")

Diag(kind, id) == [kind |-> kind, id |-> id]
Resolved(guid, ds) == [guid |-> guid, diags |-> ds]

\* the first namespace of ns_map, in dict order from position i, that holds source
RECURSIVE first_with_source(_, _, _)
first_with_source(ns_map, source, i) ==
    IF i > Len(ns_map) THEN 0
    ELSE IF DictHas(ns_map[i].val, source) THEN i
    ELSE first_with_source(ns_map, source, i + 1)

\* variant: an entry of the referencing source is preferred to the items namespace
resolve_id_source_first(id_map, source, numeric_id) ==
    IF ~DictHas(id_map, numeric_id) THEN Resolved(<<>>, <<>>)
    ELSE LET ns_map == DictGet(id_map, numeric_id)
             same == first_with_source(ns_map, source, 1)
         IN IF same # 0
            THEN Resolved(DictGet(ns_map[same].val, source), <<>>)
            ELSE IF DictHas(ns_map, "items")
            THEN Resolved(DictGet(ns_map, "items")[1].val, <<>>)
            ELSE Resolved(ns_map[1].val[1].val, <<>>)

\* lines 114-141; guid <<>> is None
_resolve_id(id_map, source, numeric_id) ==
    IF ~DictHas(id_map, numeric_id) \/ DictGet(id_map, numeric_id) = <<>>
    THEN Resolved(<<>>, <<>>)
    ELSE LET ns_map == DictGet(id_map, numeric_id) IN
         IF DictHas(ns_map, "items") /\ DictHas(DictGet(ns_map, "items"), source)
         THEN Resolved(DictGet(DictGet(ns_map, "items"), source), <<>>)
         ELSE IF DictHas(ns_map, "items")
         THEN Resolved(DictGet(ns_map, "items")[1].val, <<>>)
         ELSE LET same == first_with_source(ns_map, source, 1) IN
              IF same # 0
              THEN Resolved(DictGet(ns_map[same].val, source),
                            <<Diag("non-item namespace", numeric_id)>>)
              ELSE Resolved(ns_map[1].val[1].val,
                            <<Diag("non-item namespace (cross-source)", numeric_id)>>)

RefOut(ref, ds) == [ref |-> ref, diags |-> ds]

\* variant: an unresolvable reference is cut down to its bare id
on_unresolved_bare(ref, id_str) == StrRef(id_str)

\* line 179: return ref, after the warning of lines 176-178
on_unresolved(ref, id_str) == ref

\* lines 143-179
_resolve_ref(id_map, source, ref) ==
    IF ref.form = "dict"
    THEN IF isdigit(ref.s)
         THEN LET r == _resolve_id(id_map, source, DigitsVal(ref.s, 0)) IN
              IF r.guid # <<>> THEN RefOut(DictRef(r.guid), r.diags)
              ELSE RefOut(ref, r.diags)
         ELSE RefOut(ref, <<>>)
    ELSE IF ref = ThisRef THEN RefOut(ref, <<>>)
    ELSE LET parts == SplitOn(ref.s, XSep, <<>>)
             id_str == strip(parts[1])
         IN IF IsGuid(id_str) THEN RefOut(ref, <<>>)
            ELSE IF isdigit(id_str)
            THEN LET r == _resolve_id(id_map, source, DigitsVal(id_str, 0)) IN
                 IF r.guid # <<>>
                 THEN IF Len(parts) > 1
                      THEN RefOut(StrRef(r.guid \o XSep \o strip(parts[2])), r.diags)
                      ELSE RefOut(StrRef(r.guid), r.diags)
                 ELSE RefOut(on_unresolved(ref, id_str),
                             r.diags \o <<Diag("unresolvable", DigitsVal(id_str, 0))>>)
            ELSE RefOut(ref, <<>>)

\* [_resolve_ref(r, ...) for r in refs], with the warnings in the order logged
RECURSIVE resolve_refs(_, _, _)
resolve_refs(id_map, source, refs) ==
    IF refs = <<>> THEN [refs |-> <<>>, diags |-> <<>>]
    ELSE LET h == _resolve_ref(id_map, source, Head(refs))
             t == resolve_refs(id_map, source, Tail(refs))
         IN [refs |-> <<h.ref>> \o t.refs, diags |-> h.diags \o t.diags]

\* lines 183-185, the blueprints of one entry
RECURSIVE resolve_blueprints(_, _, _)
resolve_blueprints(id_map, source, bps) ==
    IF bps = <<>> THEN [bps |-> <<>>, diags |-> <<>>]
    ELSE LET i == resolve_refs(id_map, source, Head(bps).inputs)
             o == resolve_refs(id_map, source, Head(bps).outputs)
             t == resolve_blueprints(id_map, source, Tail(bps))
         IN [bps |-> <<[inputs |-> i.refs, outputs |-> o.refs]>> \o t.bps,
             diags |-> i.diags \o o.diags \o t.diags]

\* lines 182-185, all entries
RECURSIVE resolve_entries(_, _, _)
resolve_entries(id_map, source, entries) ==
    IF entries = <<>> THEN [entries |-> <<>>, diags |-> <<>>]
    ELSE LET h == resolve_blueprints(id_map, source, Head(entries).blueprints)
             t == resolve_entries(id_map, source, Tail(entries))
         IN [entries |-> <<[Head(entries) EXCEPT !.blueprints = h.bps]>> \o t.entries,
             diags |-> h.diags \o t.diags]

\* lines 73-185: the entries with their blueprints rewritten, and the warnings
_resolve_blueprint_ids(entries, source, extra_entries) ==
    resolve_entries(build_id_map(entries, source, extra_entries), source, entries)

\* the sources in the order their entries are handed out
SourceSeq == <<"base", "mapA", "mapB">>
SourceIx(src) == CHOOSE i \in 1..Len(SourceSeq) : SourceSeq[i] = src

\* the content the export run parses: at most n entries over base and the
\* maps, the first entry of each source holding a blueprint with inputs bp
Content(n, bps) ==
    /\ bp0 \in bps
    /\ \E k \in 0..n : \E shapes \in [1..k -> EntryShapes] :
       \E o \in Owners(k, Len(SourceSeq)) :
          /\ base_entries = MkEntries("base", Owned(shapes, o, SourceIx("base")), bp0)
          /\ map_entries =
                [m \in Maps |-> MkEntries(m, Owned(shapes, o, SourceIx(m)), bp0)]
    /\ resolved = {}
    /\ diags = [src \in Sources |-> <<>>]
    /\ by_id = NoOut
    /\ LineIdle
    /\ DocIdle
    /\ SpawnIdle
    /\ ItemIdle
    /\ GraphIdle
    /\ CallIdle

\* an export run over content whose blueprints hold one input reference
InitExport == Content(MaxContent, [1..1 -> IdRefs])

\* an export run over little content whose blueprints hold input lists
InitRefs == Content(MaxRefEntries, SeqsUpTo(RefPool, MaxRefs))

\* export_schema_c line 513: _resolve_blueprint_ids(base_entries, "base")
ResolveBase ==
    /\ resolved = {}
    /\ LET r == _resolve_blueprint_ids(base_entries, "base", <<>>) IN
       /\ base_entries' = r.entries
       /\ diags' = [diags EXCEPT !["base"] = r.diags]
    /\ resolved' = {"base"}
    /\ UNCHANGED <<map_entries, bp0, by_id, parseVars, spawnVars, itemVars, graphVars, callVars>>

\* export_schema_c line 537, one map of map_dirs:
\* _resolve_blueprint_ids(map_entries, safe, extra_entries=base_entries)
ResolveMap(m) ==
    /\ "base" \in resolved
    /\ m \notin resolved
    /\ LET r == _resolve_blueprint_ids(map_entries[m], m, base_entries) IN
       /\ map_entries' = [map_entries EXCEPT ![m] = r.entries]
       /\ diags' = [diags EXCEPT ![m] = r.diags]
    /\ resolved' = resolved \cup {m}
    /\ UNCHANGED <<base_entries, bp0, by_id, parseVars, spawnVars, itemVars, graphVars, callVars>>

Next ==
    \/ ResolveBase
    \/ \E m \in Maps : ResolveMap(m)

Spec == InitExport /\ [][Next]_vars
SpecRefs == InitRefs /\ [][Next]_vars

(***************************************************************************)
(* crafting_fmt._parse_item_ref                                            *)
(* An item is a string [form, s], an object [form, s, Amount, Delete]      *)
(* (s its "ID"; Amount and Delete are <<>> when the key is absent), or     *)
(* [form |-> "none"] for anything else.                                    *)
(***************************************************************************)
ItemDict(id, amount, delete) ==
    [form |-> "dict", s |-> id, Amount |-> amount, Delete |-> delete]
NoItem == [form |-> "none"]

ItemOut(guid, qty, tool) == [guid |-> guid, qty |-> qty, tool |-> tool, raised |-> FALSE]
ItemRaised == [guid |-> <<>>, qty |-> 0, tool |-> FALSE, raised |-> TRUE]

This == <<"t", "h", "i", "s">>
ThisX == <<"t", "h", "i", "s", " ", "x", " ">>

\* the number of whitespace characters, of digits, at the front of s
RECURSIVE LeadSpaces(_)
LeadSpaces(s) == IF s # <<>> /\ IsSpace(Head(s)) THEN 1 + LeadSpaces(Tail(s)) ELSE 0
RECURSIVE LeadDigits(_)
LeadDigits(s) == IF s # <<>> /\ IsDigit(Head(s)) THEN 1 + LeadDigits(Tail(s)) ELSE 0
DropSpaces(s) == SubSeq(s, LeadSpaces(s) + 1, Len(s))
DropDigits(s) == SubSeq(s, LeadDigits(s) + 1, Len(s))

\* the part of s that \s+x\s* leaves for (\d+)$, or <<>> when there is no match
XCount(s) ==
    LET r1 == DropSpaces(s)
    IN IF LeadSpaces(s) >= 1 /\ r1 # <<>> /\ Head(r1) = "x"
       THEN DropSpaces(Tail(r1))
       ELSE <<>>

IsHexChar(c) == LowerChar(c) \in HexChars

\* _BARE_GUID_RE = ^[0-9a-fA-F]{32}$
bare_guid_match(s) == Len(s) = GuidLen /\ \A i \in 1..Len(s) : IsHexChar(s[i])

\* _GUID_X_RE = ^([0-9a-fA-F]{32})\s+x\s*(\d+)$
guid_x_match(s) ==
    /\ Len(s) > GuidLen
    /\ bare_guid_match(SubSeq(s, 1, GuidLen))
    /\ isdigit(XCount(SubSeq(s, GuidLen + 1, Len(s))))

\* _ID_X_RE = ^(\d+)\s+x\s*(\d+)$
id_x_match(s) == LeadDigits(s) >= 1 /\ isdigit(XCount(DropDigits(s)))

\* id_to_guid.get(n, "")
id_lookup(idmap, n) == IF DictHas(idmap, n) THEN DictGet(idmap, n) ELSE <<>>

\* lines 63-77: "ID x N", "ID", anything else
parse_numeric_ref(s, idmap) ==
    IF id_x_match(s) /\ idmap # <<>>
       /\ id_lookup(idmap, DigitsVal(SubSeq(s, 1, LeadDigits(s)), 0)) # <<>>
    THEN ItemOut(id_lookup(idmap, DigitsVal(SubSeq(s, 1, LeadDigits(s)), 0)),
                 DigitsVal(XCount(DropDigits(s)), 0), FALSE)
    ELSE IF isdigit(s) /\ idmap # <<>> /\ id_lookup(idmap, DigitsVal(s, 0)) # <<>>
    THEN ItemOut(id_lookup(idmap, DigitsVal(s, 0)), 1, FALSE)
    ELSE ItemOut(<<>>, 0, FALSE)

\* variant: "this x N" loses its count
this_x_counts_one(s, owner) == ItemOut(Lower(owner), 1, FALSE)

\* lines 50-52: int() of what follows the first x, stripped
parse_this_x(s, owner) ==
    LET count_str == strip(SubSeq(s, Len(ThisX), Len(s)))
    IN IF IsIntLit(count_str) THEN ItemOut(Lower(owner), IntVal(count_str), FALSE)
       ELSE ItemRaised

\* lines 46-77
parse_str_ref(s, owner, idmap) ==
    IF s = This THEN ItemOut(Lower(owner), 1, FALSE)
    ELSE IF StartsWith(s, ThisX) THEN parse_this_x(s, owner)
    ELSE IF guid_x_match(s)
    THEN ItemOut(Lower(SubSeq(s, 1, GuidLen)),
                 DigitsVal(XCount(SubSeq(s, GuidLen + 1, Len(s))), 0), FALSE)
    ELSE IF bare_guid_match(s) THEN ItemOut(Lower(s), 1, FALSE)
    ELSE parse_numeric_ref(s, idmap)

\* lines 79-90
parse_dict_ref(it, owner) ==
    LET amount == IF it.Amount = <<>> THEN 1 ELSE it.Amount[1]
        is_tool == it.Delete = <<FALSE>>
    IN IF Lower(it.s) = This THEN ItemOut(Lower(owner), amount, is_tool)
       ELSE ItemOut(Lower(it.s), amount, is_tool)

_parse_item_ref(it, owner, idmap) ==
    IF it.form = "str" THEN parse_str_ref(it.s, owner, idmap)
    ELSE IF it.form = "dict" THEN parse_dict_ref(it, owner)
    ELSE ItemOut(<<>>, 0, FALSE)

\* references given to _parse_item_ref: a head (this, a guid in lower and in
\* upper case, the numeric ids 1 and 9, something else, nothing) followed by
\* a tail of at most n fragments
ItemOwner == GuidOf("mapA", 1)
ItemGuid == GuidOf("base", 1)
ItemGuidUpper ==
    [i \in 1..GuidLen |-> IF i = 1 THEN "B" ELSE IF i = 2 THEN "F" ELSE "0"]
ItemHeads == {This, ItemGuid, ItemGuidUpper, <<"1">>, <<"9">>, <<"z", "z">>, <<>>}
TailFrags == {<<" ">>, <<"x">>, <<"3">>, <<"0">>}
ItemTails(n) == {Concat(ps) : ps \in SeqsUpTo(TailFrags, n)}
ItemDicts ==
    {ItemDict(id, amount, delete) :
        id \in ItemHeads \cup {<<"T", "h", "i", "s">>},
        amount \in {<<>>, <<4>>},
        delete \in {<<>>, <<TRUE>>, <<FALSE>>}}
ItemInputs(n) ==
    {StrRef(h \o t) : h \in ItemHeads, t \in ItemTails(n)} \cup ItemDicts \cup {NoItem}

\* the index build_crafting_graph hands over: empty, or id 1 with its guid
IdMaps == {<<>>, <<Pair(1, GuidOf("base", 2))>>}

InitItem ==
    /\ item \in ItemInputs(MaxTailParts)
    /\ owner_guid = ItemOwner
    /\ id_to_guid \in IdMaps
    /\ iphase = "in"
    /\ iout = NoOut
    /\ LineIdle
    /\ DocIdle
    /\ SpawnIdle
    /\ ExportIdle
    /\ GraphIdle
    /\ CallIdle

ParseItemRef ==
    /\ iphase = "in"
    /\ LET r == _parse_item_ref(item, owner_guid, id_to_guid) IN
       /\ iphase' = IF r.raised THEN "raised" ELSE "parsed"
       /\ iout' = r
    /\ UNCHANGED <<item, owner_guid, id_to_guid, parseVars, spawnVars, exportVars, graphVars, callVars>>

NextItem == ParseItemRef

SpecItem == InitItem /\ [][NextItem]_vars

(***************************************************************************)
(* crafting_fmt.build_crafting_graph                                       *)
(* An entry is [guid, id, source_path, blueprints], a blueprint is         *)
(* [name, inputs, outputs].  A node is kept as its id and whether it is a  *)
(* stub; an edge as source, target, type, quantity, tool, blueprintId and  *)
(* byproduct (the name, type, category, rarity, maps, workstations and     *)
(* skill fields are copies of entry and blueprint fields).                 *)
(***************************************************************************)
DictKeys(dct) == {dct[i].k : i \in 1..Len(dct)}

ItemsPrefix == <<"I", "t", "e", "m", "s", "/">>

RECURSIVE DecimalDigits(_)
\* str(n) for n >= 0
DecimalDigits(n) ==
    IF n < 10 THEN <<(<<"0", "1", "2", "3", "4", "5", "6", "7", "8", "9">>)[n + 1]>>
    ELSE Append(DecimalDigits(n \div 10),
                (<<"0", "1", "2", "3", "4", "5", "6", "7", "8", "9">>)[(n % 10) + 1])

\* variant: the counter is not part of the id
bp_id_per_entry(counter) == <<"b", "p", "-", "1">>

\* line 186: f"bp-{blueprint_counter}"
bp_id_of(counter) == <<"b", "p", "-">> \o DecimalDigits(counter)

RECURSIVE build_id_to_guid(_, _)
\* lines 136-139
build_id_to_guid(idmap, es) ==
    IF es = <<>> THEN idmap
    ELSE LET e == Head(es) IN
         build_id_to_guid(
            IF e.id # 0 /\ e.guid # <<>> /\ StartsWith(e.source_path, ItemsPrefix)
            THEN DictSet(idmap, e.id, Lower(e.guid)) ELSE idmap,
            Tail(es))

RECURSIVE build_entries_by_guid(_, _)
\* lines 142-145 (the guids that have an entry)
build_entries_by_guid(byg, es) ==
    IF es = <<>> THEN byg
    ELSE build_entries_by_guid(
            IF Head(es).guid # <<>> THEN byg \cup {Lower(Head(es).guid)} ELSE byg,
            Tail(es))

\* lines 104-112
_is_entry_core(entry, prefixes) ==
    IF prefixes = <<>> THEN TRUE
    ELSE ~\E i \in 1..Len(prefixes) : \E j \in 1..Len(prefixes[i].val) :
             StartsWith(entry.source_path, prefixes[i].val[j])

\* variant: one map that disallows core blueprints is enough to leave them out
any_allows_needs_all(blacklists, prefixes) ==
    \A i \in 1..Len(blacklists) :
        blacklists[i].val.none \/ blacklists[i].val.allow_core_blueprints

\* variant: a blacklist that blocks an input does not allow core blueprints
any_allows_unblocked(blacklists, prefixes) ==
    \/ DictKeys(prefixes) \ DictKeys(blacklists) # {}
    \/ \E i \in 1..Len(blacklists) :
          \/ blacklists[i].val.none
          \/ blacklists[i].val.allow_core_blueprints /\ blacklists[i].val.blocked_inputs = {}

\* lines 157-165
any_allows_core(blacklists, prefixes) ==
    \/ DictKeys(prefixes) \ DictKeys(blacklists) # {}
    \/ \E i \in 1..Len(blacklists) :
          blacklists[i].val.none \/ blacklists[i].val.allow_core_blueprints

GNode(id, stub) == [id |-> id, stub |-> stub]
HasNode(ns, guid) == \E i \in 1..Len(ns) : ns[i].id = guid

\* variant: a guid without an entry gets no node
ensure_known_node(ns, guid, byg) ==
    IF HasNode(ns, guid) \/ guid \notin byg THEN ns ELSE Append(ns, GNode(guid, FALSE))

\* lines 308-334
_ensure_stub_node(ns, guid, byg) ==
    IF HasNode(ns, guid) THEN ns ELSE Append(ns, GNode(guid, guid \notin byg))

Edge(source, target, type, r, bp_id, byproduct) ==
    [source |-> source, target |-> target, type |-> type, quantity |-> r.qty,
     tool |-> r.tool, blueprintId |-> bp_id, byproduct |-> byproduct]

Graph(ns, es, counter) ==
    [nodes |-> ns, edges |-> es, blueprint_counter |-> counter, raised |-> FALSE]

\* what one blueprint's loops share
Ctx(owner, idmap, byg, bp_id) == [owner |-> owner, idmap |-> idmap, byg |-> byg, bp_id |-> bp_id]

RECURSIVE salvage_edges(_, _, _)
\* lines 204-222
salvage_edges(g, outs, c) ==
    IF outs = <<>> \/ g.raised THEN g
    ELSE LET r == _parse_item_ref(Head(outs), c.owner, c.idmap) IN
         IF r.raised THEN [g EXCEPT !.raised = TRUE]
         ELSE IF r.guid = <<>> THEN salvage_edges(g, Tail(outs), c)
         ELSE salvage_edges(
                [g EXCEPT !.nodes = _ensure_stub_node(@, r.guid, c.byg),
                          !.edges = Append(@, Edge(c.owner, r.guid, "salvage", r, c.bp_id, FALSE))],
                Tail(outs), c)

RECURSIVE input_edges(_, _, _, _, _, _)
\* lines 227-245 and 260-278: an edge from every resolved input to target
input_edges(g, ins, c, target, type, byproduct) ==
    IF ins = <<>> \/ g.raised THEN g
    ELSE LET r == _parse_item_ref(Head(ins), c.owner, c.idmap) IN
         IF r.raised THEN [g EXCEPT !.raised = TRUE]
         ELSE IF r.guid = <<>> THEN input_edges(g, Tail(ins), c, target, type, byproduct)
         ELSE input_edges(
                [g EXCEPT !.nodes = _ensure_stub_node(@, r.guid, c.byg),
                          !.edges = Append(@, Edge(r.guid, target, type, r, c.bp_id, byproduct))],
                Tail(ins), c, target, type, byproduct)

RECURSIVE craft_target_loop(_, _, _, _)
\* lines 299-303
craft_target_loop(targets, outs, owner, idmap) ==
    IF outs = <<>> \/ targets.raised THEN targets
    ELSE LET r == _parse_item_ref(Head(outs), owner, idmap) IN
         IF r.raised THEN [targets EXCEPT !.raised = TRUE]
         ELSE craft_target_loop(
                IF r.guid # <<>> THEN [targets EXCEPT !.list = Append(@, r.guid)] ELSE targets,
                Tail(outs), owner, idmap)

\* variant: the owner is the target of every craft blueprint
craft_targets_owner_only(bp, owner, idmap) == [list |-> <<owner>>, raised |-> FALSE]

\* lines 286-305
_resolve_craft_targets(bp, owner, idmap) ==
    IF bp.outputs = <<>> THEN [list |-> <<owner>>, raised |-> FALSE]
    ELSE LET t == craft_target_loop([list |-> <<>>, raised |-> FALSE], bp.outputs, owner, idmap)
         IN IF t.raised \/ t.list # <<>> THEN t ELSE [list |-> <<owner>>, raised |-> FALSE]

\* lines 256-259
is_byproduct(targets, target_guid, owner) == Len(targets) > 1 /\ target_guid # owner

RECURSIVE craft_edges(_, _, _, _, _)
\* lines 254-278
craft_edges(g, targets, k, bp, c) ==
    IF k > Len(targets) \/ g.raised THEN g
    ELSE craft_edges(
            input_edges([g EXCEPT !.nodes = _ensure_stub_node(@, targets[k], c.byg)],
                        bp.inputs, c, targets[k], "craft",
                        is_byproduct(targets, targets[k], c.owner)),
            targets, k + 1, bp, c)

\* variant: every blueprint that is not a salvage gives craft edges
edge_type_no_repair(name) == IF name = "Salvage" THEN "salvage" ELSE "craft"

\* lines 189-194
edge_type_of(name) ==
    IF name = "Salvage" THEN "salvage" ELSE IF name = "Repair" THEN "repair" ELSE "craft"

\* variant: a salvage blueprint also links its inputs to the owner
blueprint_edges_salvage_inputs(g, bp, owner, idmap, byg) ==
    LET counter == g.blueprint_counter + 1
        c == Ctx(owner, idmap, byg, bp_id_of(counter))
        g1 == [g EXCEPT !.blueprint_counter = counter]
    IN IF edge_type_of(bp.name) = "salvage"
       THEN input_edges(salvage_edges(g1, bp.outputs, c), bp.inputs, c, owner, "salvage", FALSE)
       ELSE IF edge_type_of(bp.name) = "repair"
       THEN input_edges(g1, bp.inputs, c, owner, "repair", FALSE)
       ELSE LET t == _resolve_craft_targets(bp, owner, idmap)
            IN IF t.raised THEN [g1 EXCEPT !.raised = TRUE]
               ELSE craft_edges(g1, t.list, 1, bp, c)

\* lines 185-278, one blueprint
blueprint_edges(g, bp, owner, idmap, byg) ==
    LET counter == g.blueprint_counter + 1
        c == Ctx(owner, idmap, byg, bp_id_of(counter))
        g1 == [g EXCEPT !.blueprint_counter = counter]
    IN IF edge_type_of(bp.name) = "salvage" THEN salvage_edges(g1, bp.outputs, c)
       ELSE IF edge_type_of(bp.name) = "repair"
       THEN input_edges(g1, bp.inputs, c, owner, "repair", FALSE)
       ELSE LET t == _resolve_craft_targets(bp, owner, idmap)
            IN IF t.raised THEN [g1 EXCEPT !.raised = TRUE]
               ELSE craft_edges(g1, t.list, 1, bp, c)

RECURSIVE blueprints_loop(_, _, _, _, _)
blueprints_loop(g, bps, owner, idmap, byg) ==
    IF bps = <<>> \/ g.raised THEN g
    ELSE blueprints_loop(blueprint_edges(g, Head(bps), owner, idmap, byg),
                         Tail(bps), owner, idmap, byg)

\* variant: the owner gets a node of its own for every entry that names it
add_owner_always(ns, owner) == Append(ns, GNode(owner, FALSE))

\* lines 174-182
add_owner_node(ns, owner) == IF HasNode(ns, owner) THEN ns ELSE Append(ns, GNode(owner, FALSE))

\* lines 148-278, one entry
entry_edges(g, entry, blacklists, prefixes, idmap, byg) ==
    IF entry.blueprints = <<>> THEN g
    ELSE IF blacklists # <<>> /\ _is_entry_core(entry, prefixes)
            /\ ~any_allows_core(blacklists, prefixes) THEN g
    ELSE IF Lower(entry.guid) = <<>> THEN g
    ELSE blueprints_loop([g EXCEPT !.nodes = add_owner_node(@, Lower(entry.guid))],
                         entry.blueprints, Lower(entry.guid), idmap, byg)

RECURSIVE entries_loop(_, _, _, _, _, _)
entries_loop(g, es, blacklists, prefixes, idmap, byg) ==
    IF es = <<>> \/ g.raised THEN g
    ELSE entries_loop(entry_edges(g, Head(es), blacklists, prefixes, idmap, byg),
                      Tail(es), blacklists, prefixes, idmap, byg)

\* lines 115-283
build_crafting_graph(es, blacklists, prefixes) ==
    entries_loop(Graph(<<>>, <<>>, 0), es, blacklists, prefixes,
                 build_id_to_guid(<<>>, es), build_entries_by_guid({}, es))

(***************************************************************************)
(* Inputs of build_crafting_graph                                          *)
(***************************************************************************)
GEntry(guid, id, source_path, blueprints) ==
    [guid |-> guid, id |-> id, source_path |-> source_path, blueprints |-> blueprints]
Blueprint(name, inputs, outputs) == [name |-> name, inputs |-> inputs, outputs |-> outputs]

\* a guid no entry has
ScrapGuid == GuidOf("mapB", 1)
TimesThree == <<" ", "x", " ", "3">>

CorePath == ItemsPrefix \o <<"a">>
MapChars(m) == IF m = "mapA" THEN <<"m", "a", "p", "A">> ELSE <<"m", "a", "p", "B">>
\* cli.py line 183: f"_map_{map_name}/"
MapPrefix(m) == <<"_", "m", "a", "p", "_">> \o MapChars(m) \o <<"/">>
MapPath(m) == MapPrefix(m) \o CorePath

\* references of one blueprint: the owner bare and with a count, a guid
\* without an entry with a count, the guid of another entry, an unknown token
GraphRefs == {
    ThisRef,
    StrRef(This \o <<" ", "x", " ", "2">>),
    StrRef(ScrapGuid \o TimesThree),
    StrRef(ItemGuid),
    StrRef(<<"z", "z">>) }
BlueprintNames == {"Salvage", "Repair", "Craft", "Upgrade"}


NoBlacklists == <<>>
NoPrefixes == <<>>

GraphStart ==
    /\ gphase = "in"
    /\ nodes = <<>>
    /\ edges = <<>>
    /\ LineIdle
    /\ DocIdle
    /\ SpawnIdle
    /\ ExportIdle
    /\ ItemIdle
    /\ CallIdle

\* one entry with one blueprint, next to the entry the blueprint may name
InitGraph ==
    /\ \E k \in 0..MaxBpRefs : \E refs \in [1..k -> GraphRefs] : \E cut \in 0..k :
       \E name \in BlueprintNames :
          graph_entries =
             <<GEntry(ItemOwner, 0, CorePath,
                      <<Blueprint(name, SubSeq(refs, 1, cut), SubSeq(refs, cut + 1, k))>>),
               GEntry(ItemGuid, 1, CorePath, <<>>)>>
    /\ crafting_blacklists = NoBlacklists
    /\ map_source_prefixes = NoPrefixes
    /\ GraphStart

\* blueprints met on many entries: a craft from a guid without an entry and
\* from the first guid, the salvage of another guid into it, a repair by
\* numeric id 1
ThinBlueprints == {
    Blueprint("Craft", <<StrRef(ScrapGuid \o TimesThree), StrRef(ItemOwner)>>, <<>>),
    Blueprint("Salvage", <<StrRef(ItemGuid)>>, <<StrRef(ScrapGuid \o TimesThree)>>),
    Blueprint("Repair", <<StrRef(<<"1">>)>>, <<>>) }
EntryGuids == {ItemOwner, ItemGuid, <<>>}

CraftingBlacklist(allow) ==
    [none |-> FALSE, allow_core_blueprints |-> allow,
     blocked_inputs |-> {}, blocked_outputs |-> {}]

\* models.entry.CraftingBlacklist with its three fields
Blacklist(allow, ins, outs) ==
    [none |-> FALSE, allow_core_blueprints |-> allow,
     blocked_inputs |-> ins, blocked_outputs |-> outs]

MapSeq == <<"mapA", "mapB">>
RECURSIVE DictOver(_, _, _)
\* the dict with f[m] for the maps of ms, in the order of MapSeq
DictOver(ms, f, i) ==
    IF i > Len(MapSeq) THEN <<>>
    ELSE (IF MapSeq[i] \in ms THEN <<Pair(MapSeq[i], f[MapSeq[i]])>> ELSE <<>>)
            \o DictOver(ms, f, i + 1)

\* cli.py lines 175-183: every map of args.map gets its prefix, and a
\* blacklist when resolve_crafting_blacklist finds one
MapArgs(active, listed, allow) ==
    /\ map_source_prefixes = DictOver(active, [m \in Maps |-> <<MapPrefix(m)>>], 1)
    /\ crafting_blacklists = DictOver(listed, [m \in Maps |-> CraftingBlacklist(allow[m])], 1)

\* at most ne entries with at most nb blueprints in all; entry k has id k;
\* no map, or one map that bars core blueprints
InitGraphs ==
    /\ \E ne \in 0..MaxGEntries : \E guids \in [1..ne -> EntryGuids] :
       \E nb \in 0..MaxGBps : \E o \in Owners(nb, ne) : \E bps \in [1..nb -> ThinBlueprints] :
          graph_entries = [k \in 1..ne |-> GEntry(guids[k], k, CorePath, Owned(bps, o, k))]
    /\ \E active \in {{}, {"mapA"}} : MapArgs(active, active, [m \in Maps |-> FALSE])
    /\ GraphStart

InitBlack ==
    /\ \E ne \in 0..MaxGEntries : \E paths \in [1..ne -> {CorePath} \cup {MapPath(m) : m \in Maps}] :
          graph_entries =
             [k \in 1..ne |-> GEntry(GuidOf("base", k), k, paths[k],
                                     <<Blueprint("Craft", <<StrRef(ScrapGuid \o TimesThree)>>, <<ThisRef>>)>>)]
    /\ \E active \in SUBSET Maps : \E listed \in SUBSET active : \E allow \in [listed -> BOOLEAN] :
          MapArgs(active, listed, [m \in Maps |-> m \in listed /\ allow[m]])
    /\ GraphStart

BuildGraph ==
    /\ gphase = "in"
    /\ \E g \in {build_crafting_graph(graph_entries, crafting_blacklists, map_source_prefixes)} :
       /\ gphase' = IF g.raised THEN "raised" ELSE "built"
       /\ nodes' = g.nodes
       /\ edges' = g.edges
    /\ UNCHANGED <<graph_entries, crafting_blacklists, map_source_prefixes,
                   parseVars, spawnVars, exportVars, itemVars, callVars>>

NextGraph == BuildGraph

SpecGraph == InitGraph /\ [][NextGraph]_vars
SpecGraphs == InitGraphs /\ [][NextGraph]_vars
SpecBlack == InitBlack /\ [][NextGraph]_vars

\* blacklists that block guids: the guid the blueprints take as input and
\* the guid of the first entry, which its blueprint gives as output
BlockedInputs == {{}, {ScrapGuid}}
BlockedOutputs == {{}, {GuidOf("base", 1)}}

\* the inputs of InitBlack with blocked_inputs / blocked_outputs filled in
InitBlocked ==
    /\ \E ne \in 0..MaxGEntries : \E paths \in [1..ne -> {CorePath} \cup {MapPath(m) : m \in Maps}] :
          graph_entries =
             [k \in 1..ne |-> GEntry(GuidOf("base", k), k, paths[k],
                                     <<Blueprint("Craft", <<StrRef(ScrapGuid \o TimesThree)>>, <<ThisRef>>)>>)]
    /\ \E active \in SUBSET Maps : \E listed \in SUBSET active : \E allow \in [listed -> BOOLEAN] :
       \E ins \in [listed -> BlockedInputs] : \E outs \in [listed -> BlockedOutputs] :
          /\ map_source_prefixes = DictOver(active, [m \in Maps |-> <<MapPrefix(m)>>], 1)
          /\ crafting_blacklists =
                DictOver(listed, [m \in Maps |-> IF m \in listed
                                                 THEN Blacklist(allow[m], ins[m], outs[m])
                                                 ELSE Blacklist(FALSE, {}, {})], 1)
    /\ GraphStart

SpecBlocked == InitBlocked /\ [][NextGraph]_vars

(***************************************************************************)
(* exporter._ensure_guids                                                  *)
(*                                                                         *)
(* hashlib.sha256 is a fixed function from byte strings to 64 hex digits.  *)
(* It is stood in for by a position-weighted checksum with that signature: *)
(* what _ensure_guids does with the digest (which fields feed it, which    *)
(* digits are kept, what is put in front) is modelled as the code does it. *)
(***************************************************************************)
HashChars ==
    LowerChars \o UpperChars \o <<"0", "1", "2", "3", "4", "5", "6", "7", "8", "9", ":">>
CharCode(c) == CHOOSE i \in 1..Len(HashChars) : HashChars[i] = c
HexDigits == <<"0", "1", "2", "3", "4", "5", "6", "7", "8", "9", "a", "b", "c", "d", "e", "f">>

RECURSIVE WeightedSum(_, _, _)
\* the sum over the first n characters of s of (w * i + 1) * code
WeightedSum(s, w, n) ==
    IF n = 0 THEN Len(s) ELSE WeightedSum(s, w, n - 1) + (w * n + 1) * CharCode(s[n])

\* 64 hex digits fixed by the two sums
DigestOf(plain, weighted) ==
    [k \in 1..64 |-> HexDigits[((plain + k * weighted + k * k) % 16) + 1]]

\* line 66: hashlib.sha256(hash_input.encode()).hexdigest()
sha256_hexdigest(s) == DigestOf(WeightedSum(s, 0, Len(s)), WeightedSum(s, 1, Len(s)))

GEntryOf(guid, type, id, name, source_path) ==
    [guid |-> guid, type |-> type, id |-> id, name |-> name, source_path |-> source_path]

\* variant: the name of the entry is hashed too
hash_input_with_name(source, entry) ==
    source \o <<":">> \o entry.type \o <<":">> \o DecimalDigits(entry.id) \o entry.name

\* line 65: f"{source}:{entry.type}:{entry.id}"
hash_input(source, entry) ==
    source \o <<":">> \o entry.type \o <<":">> \o DecimalDigits(entry.id)

SyntheticPrefix == <<"0", "0", "0", "0", "0">>

\* lines 64-67, one entry
ensure_guid(entry, source) ==
    IF entry.guid = <<>>
    THEN [entry EXCEPT !.guid =
             SyntheticPrefix \o SubSeq(sha256_hexdigest(hash_input(source, entry)), 1, 27)]
    ELSE entry

\* lines 58-67
_ensure_guids(es, source) == [k \in 1..Len(es) |-> ensure_guid(es[k], source)]

\* entries with and without a guid, of two types and two ids, under two
\* names and paths
GuidEntries ==
    {GEntryOf(guid, type, id, label[1], label[2]) :
        guid \in {<<>>, ItemGuid},
        type \in {<<"G", "u", "n">>, <<"H", "a", "t">>},
        id \in {0, 42},
        label \in {<<<<"X">>, CorePath>>, <<<<"Y">>, MapPath("mapA")>>}}
SourceLabels == {<<"b", "a", "s", "e">>, MapChars("mapA")}

CallStart ==
    /\ cphase = "in"
    /\ cret = NoOut
    /\ LineIdle
    /\ DocIdle
    /\ SpawnIdle
    /\ ExportIdle
    /\ ItemIdle
    /\ GraphIdle

InitGuids ==
    /\ \E n \in 0..MaxGuidEntries : \E es \in [1..n -> GuidEntries] : \E source \in SourceLabels :
          call = [fn |-> "_ensure_guids", entries |-> es, source |-> source]
    /\ CallStart

\* export_schema_c lines 512 and 536
EnsureGuids ==
    /\ cphase = "in"
    /\ call.fn = "_ensure_guids"
    /\ cret' = _ensure_guids(call.entries, call.source)
    /\ cphase' = "done"
    /\ UNCHANGED <<call, parseVars, spawnVars, exportVars, itemVars, graphVars>>

NextGuids == EnsureGuids

SpecGuids == InitGuids /\ [][NextGuids]_vars

(***************************************************************************)
(* exporter._build_guid_index: the by_id table                             *)
(*   {str(id): {namespace: {source_label: guid}}}                          *)
(***************************************************************************)
RECURSIVE InsertById(_, _)
\* e put into the id-sorted list es after the entries with ids up to its own
InsertById(es, e) ==
    IF es = <<>> THEN <<e>>
    ELSE IF Head(es).id <= e.id THEN <<Head(es)>> \o InsertById(Tail(es), e)
    ELSE <<e>> \o es

RECURSIVE sorted_items(_)
\* line 436: sorted(items, key=(name, id)); the entries of the model carry
\* no name, which leaves the id as the key
sorted_items(items) ==
    IF items = <<>> THEN <<>>
    ELSE InsertById(sorted_items(SubSeq(items, 1, Len(items) - 1)), items[Len(items)])

\* variant: every entry is put into the table under its id
index_by_id_any(tbl, e, source_label) ==
    LET id_str == DecimalDigits(e.id)
        ns == _get_namespace(e.source_path)
        by_ns == IF DictHas(tbl, id_str) THEN DictGet(tbl, id_str) ELSE <<>>
        by_src == IF DictHas(by_ns, ns) THEN DictGet(by_ns, ns) ELSE <<>>
    IN DictSet(tbl, id_str, DictSet(by_ns, ns, DictSet(by_src, source_label, e.guid)))

\* lines 446-453, one entry
index_by_id(tbl, e, source_label) ==
    IF e.id = 0 THEN tbl
    ELSE LET id_str == DecimalDigits(e.id)
             ns == _get_namespace(e.source_path)
             by_ns == IF DictHas(tbl, id_str) THEN DictGet(tbl, id_str) ELSE <<>>
             by_src == IF DictHas(by_ns, ns) THEN DictGet(by_ns, ns) ELSE <<>>
         IN DictSet(tbl, id_str, DictSet(by_ns, ns, DictSet(by_src, source_label, e.guid)))

RECURSIVE index_loop(_, _, _)
index_loop(tbl, items, source_label) ==
    IF items = <<>> THEN tbl
    ELSE index_loop(index_by_id(tbl, Head(items), source_label), Tail(items), source_label)

\* lines 430-453
_index_bundle_entries(tbl, items, source_label) ==
    index_loop(tbl, sorted_items(items), source_label)

RECURSIVE index_maps(_, _, _)
\* lines 475-481: the maps in sorted order, those with entries
index_maps(tbl, map_data, i) ==
    IF i > Len(MapSeq) THEN tbl
    ELSE index_maps(
            IF map_data[MapSeq[i]] # <<>>
            THEN _index_bundle_entries(tbl, map_data[MapSeq[i]], MapSeq[i]) ELSE tbl,
            map_data, i + 1)

\* lines 418-490, by_id
_build_guid_index(base, map_data) ==
    index_maps(_index_bundle_entries(<<>>, base, "base"), map_data, 1)

\* references to id 0: bare, with a quantity and as a dict
ZeroRefs == {
    StrRef(<<"0">>),
    StrRef(<<"0", " ", "x", " ", "2">>),
    DictRef(<<"0">>) }

\* an export run whose blueprints refer to id 0
InitIndex == Content(MaxContent, [1..1 -> ZeroRefs])

\* export_schema_c line 578
BuildGuidIndex ==
    /\ resolved = Sources
    /\ by_id = NoOut
    /\ by_id' = [kind |-> "built", table |-> _build_guid_index(base_entries, map_entries)]
    /\ UNCHANGED <<base_entries, map_entries, bp0, resolved, diags,
                   parseVars, spawnVars, itemVars, graphVars, callVars>>

NextIndex ==
    \/ ResolveBase
    \/ \E m \in Maps : ResolveMap(m)
    \/ BuildGuidIndex

SpecIndex == InitIndex /\ [][NextIndex]_vars

(***************************************************************************)
(* models.entry.CraftingBlacklist.merge                                    *)
(***************************************************************************)
\* variant: one member that allows core blueprints is enough
any_member_allows(blacklists) == \E i \in 1..Len(blacklists) : blacklists[i].allow_core_blueprints

RECURSIVE all_allow(_)
\* line 220: all(bl.allow_core_blueprints for bl in blacklists)
all_allow(blacklists) ==
    IF blacklists = <<>> THEN TRUE
    ELSE IF ~Head(blacklists).allow_core_blueprints THEN FALSE
    ELSE all_allow(Tail(blacklists))

RECURSIVE union_all(_, _)
\* lines 221-222: set().union(*sets)
union_all(acc, sets) == IF sets = <<>> THEN acc ELSE union_all(acc \cup Head(sets), Tail(sets))

\* lines 216-223
CraftingBlacklist_merge(blacklists) ==
    IF blacklists = <<>> THEN Blacklist(TRUE, {}, {})
    ELSE Blacklist(all_allow(blacklists),
                   union_all({}, [i \in 1..Len(blacklists) |-> blacklists[i].blocked_inputs]),
                   union_all({}, [i \in 1..Len(blacklists) |-> blacklists[i].blocked_outputs]))

BlockedPool == {"guid-a", "guid-b"}

InitMerge ==
    /\ \E n \in 0..MaxMerged : \E allow \in [1..n -> BOOLEAN] :
       \E ins \in [1..n -> SUBSET BlockedPool] : \E outs \in [1..n -> SUBSET BlockedPool] :
          call = [fn |-> "merge",
                  blacklists |-> [i \in 1..n |-> Blacklist(allow[i], ins[i], outs[i])]]
    /\ CallStart

\* crafting_blacklist.resolve_crafting_blacklist line 130
Merge ==
    /\ cphase = "in"
    /\ call.fn = "merge"
    /\ cret' = CraftingBlacklist_merge(call.blacklists)
    /\ cphase' = "done"
    /\ UNCHANGED <<call, parseVars, spawnVars, exportVars, itemVars, graphVars>>

NextMerge == Merge

SpecMerge == InitMerge /\ [][NextMerge]_vars

(***************************************************************************)
(* filters.map_filter                                                      *)
(***************************************************************************)
\* lines 37-41: the predicate map_filter returns, applied to one entry;
\* spawnable_ids is a function from the map names it has to sets of ids
map_filter(map_names, spawnable_ids, entry) ==
    \E name \in map_names :
        name \in DOMAIN spawnable_ids /\ entry.id \in spawnable_ids[name]

FilterIds == {0, 1, 2}
FilterPaths == {CorePath} \cup {MapPath(m) : m \in Maps}

InitFilter ==
    /\ \E id \in FilterIds : \E path \in FilterPaths : \E names \in SUBSET Maps :
       \E have \in SUBSET Maps : \E ids \in [have -> SUBSET (FilterIds \ {0})] :
          call = [fn |-> "map_filter", map_names |-> names, spawnable_ids |-> ids,
                  entry |-> GEntry(GuidOf("base", 1), id, path, <<>>)]
    /\ CallStart

\* filters.apply_filters line 51: f(e)
MapFilter ==
    /\ cphase = "in"
    /\ call.fn = "map_filter"
    /\ cret' = map_filter(call.map_names, call.spawnable_ids, call.entry)
    /\ cphase' = "done"
    /\ UNCHANGED <<call, parseVars, spawnVars, exportVars, itemVars, graphVars>>

NextFilter == MapFilter

SpecFilter == InitFilter /\ [][NextFilter]_vars

(***************************************************************************)
(* formatters.markdown_fmt._non_empty_columns                              *)
(***************************************************************************)
\* line 189: threshold = 0.8, as the fraction ThresholdNum / ThresholdDen
ThresholdNum == 4
ThresholdDen == 5

\* line 208
EmptyValues == {"", "0", "0.0", "0/0", "0.0/0.0", "0.0/0.0/0.0"}

\* line 207: row[i] if i < len(row) else "" (i counts from 0)
cell_value(row, i) == IF i < Len(row) THEN row[i + 1] ELSE ""

RECURSIVE count_empty(_, _)
\* lines 205-209
count_empty(rows, i) ==
    IF rows = <<>> THEN 0
    ELSE (IF cell_value(Head(rows), i) \in EmptyValues THEN 1 ELSE 0)
         + count_empty(Tail(rows), i)

\* variant: a column at the threshold is still kept
at_most_threshold(empty, n) == empty * ThresholdDen <= ThresholdNum * n

\* line 210: empty / len(rows) < threshold
below_threshold(empty, n) == empty * ThresholdDen < ThresholdNum * n

RECURSIVE keep_from(_, _, _)
\* lines 200-211: the loop over range(len(columns)) from index i on
keep_from(columns, rows, i) ==
    IF i >= Len(columns) THEN <<>>
    ELSE IF i = 0 \/ below_threshold(count_empty(rows, i), Len(rows))
    THEN <<i>> \o keep_from(columns, rows, i + 1)
    ELSE keep_from(columns, rows, i + 1)

\* lines 186-212
_non_empty_columns(columns, rows) ==
    IF rows = <<>> THEN [i \in 1..Len(columns) |-> i - 1]
    ELSE keep_from(columns, rows, 0)

ColumnNames == <<"Name", "Range", "Damage">>
\* rows of a table: short rows, empty and filled first and second cells
RowPool == {<<>>, <<"">>, <<"", "">>, <<"", "0.0">>, <<"n", "x">>, <<"n", "0">>}

InitColumns ==
    /\ \E ncols \in 1..Len(ColumnNames) : \E n \in 0..MaxRows :
       \E rows \in [1..n -> RowPool] :
          call = [fn |-> "_non_empty_columns",
                  columns |-> SubSeq(ColumnNames, 1, ncols), rows |-> rows]
    /\ CallStart

\* markdown_fmt: keep = _non_empty_columns(columns, rows)
NonEmptyColumns ==
    /\ cphase = "in"
    /\ call.fn = "_non_empty_columns"
    /\ cret' = _non_empty_columns(call.columns, call.rows)
    /\ cphase' = "done"
    /\ UNCHANGED <<call, parseVars, spawnVars, exportVars, itemVars, graphVars>>

NextColumns == NonEmptyColumns

SpecColumns == InitColumns /\ [][NextColumns]_vars

(***************************************************************************)
(* _resolve_blueprint_ids applied twice to the same entries                *)
(***************************************************************************)
\* a guid of decimal digits only: 32 characters of [0-9a-f], value 2
DigitGuid == [i \in 1..GuidLen |-> IF i = GuidLen THEN "2" ELSE "0"]
AgainGuids == {GuidOf("base", 1), GuidOf("base", 2), DigitGuid}
AgainIds == {1, 2}
\* references: ids 1 and 2 bare, with a quantity and as a tool dict, "this"
\* with and without a quantity, a guid with a quantity, an id no entry has
AgainRefs == {
    StrRef(<<"1">>),
    StrRef(<<"1", " ", "x", " ", "2">>),
    DictRef(<<"1">>),
    StrRef(<<"2">>),
    ThisRef,
    StrRef(This \o <<" ", "x", " ", "2">>),
    StrRef(GuidOf("base", 2) \o <<" ", "x", " ", "2">>),
    StrRef(<<"9">>) }

InitAgain ==
    /\ \E ids \in [1..2 -> AgainIds] : \E guids \in [1..2 -> AgainGuids] :
       \E ins \in SeqsUpTo(AgainRefs, MaxRefs) : \E outs \in {<<ThisRef>>, <<DictRef(<<"1">>)>>} :
       \E source \in {"base", "mapA"} : \E extra \in {0, 1} :
          /\ guids[1] # guids[2]
          /\ call = [fn |-> "_resolve_blueprint_ids",
                     entries |-> <<[id |-> ids[1], source_path |-> "Items", guid |-> guids[1],
                                    blueprints |-> <<[inputs |-> ins, outputs |-> outs]>>],
                                   [id |-> ids[2], source_path |-> "Items", guid |-> guids[2],
                                    blueprints |-> <<>>]>>,
                     source |-> source,
                     extra_entries |-> IF extra = 0 THEN <<>>
                                       ELSE <<[id |-> 1, source_path |-> "Items",
                                               guid |-> GuidOf("mapB", 1), blueprints |-> <<>>]>>]
    /\ CallStart

\* the first application
ResolveOnce ==
    /\ cphase = "in"
    /\ call.fn = "_resolve_blueprint_ids"
    /\ \E r \in {_resolve_blueprint_ids(call.entries, call.source, call.extra_entries)} :
          cret' = [first |-> r.entries, second |-> r.entries]
    /\ cphase' = "once"
    /\ UNCHANGED <<call, parseVars, spawnVars, exportVars, itemVars, graphVars>>

\* the second application, to the entries the first one rewrote
ResolveAgain ==
    /\ cphase = "once"
    /\ call.fn = "_resolve_blueprint_ids"
    /\ \E r \in {_resolve_blueprint_ids(cret.first, call.source, call.extra_entries)} :
          cret' = [cret EXCEPT !.second = r.entries]
    /\ cphase' = "twice"
    /\ UNCHANGED <<call, parseVars, spawnVars, exportVars, itemVars, graphVars>>

NextAgain == ResolveOnce \/ ResolveAgain

SpecAgain == InitAgain /\ [][NextAgain]_vars

(***************************************************************************)
(* Properties of _resolve_blueprint_ids                                    *)
(***************************************************************************)
EntriesOfSource(src) == IF src = "base" THEN base_entries ELSE map_entries[src]

Reg(src, e) == [src |-> src, ns |-> _get_namespace(e.source_path), id |-> e.id, guid |-> e.guid]
RegsOf(src) ==
    {Reg(src, EntriesOfSource(src)[k]) : k \in 1..Len(EntriesOfSource(src))}

\* what the id index of the call for source S is built from: the entries of S
\* and, for a map, the base entries; id 0 is no id
Registered(S) == {r \in RegsOf(S) \cup RegsOf("base") : r.id # 0}

\* a reference that names a numeric id: "ID", "ID x N" or a tool dict with "ID"
NumLen(ref) ==
    IF \E k \in 1..Len(ref.s) : ~IsDigit(ref.s[k])
    THEN (CHOOSE k \in 1..Len(ref.s) :
            ~IsDigit(ref.s[k]) /\ \A j \in 1..(k - 1) : IsDigit(ref.s[j])) - 1
    ELSE Len(ref.s)
RefSuffix(ref) == SubSeq(ref.s, NumLen(ref) + 1, Len(ref.s))
IsNumRef(ref) ==
    /\ NumLen(ref) >= 1
    /\ IF ref.form = "dict" THEN RefSuffix(ref) = <<>>
       ELSE RefSuffix(ref) = <<>> \/ StartsWith(RefSuffix(ref), XSep)
RefNum(ref) == DigitsVal(SubSeq(ref.s, 1, NumLen(ref)), 0)

\* the reference with its id replaced by guid g
WithGuid(ref, g) == [form |-> ref.form, s |-> g \o RefSuffix(ref)]

\* the candidates of the highest priority rule that has any, for id n from source S
Rule1(S, n) == {r \in Registered(S) : r.id = n /\ r.ns = "items" /\ r.src = S}
Rule2(S, n) == {r \in Registered(S) : r.id = n /\ r.ns = "items"}
Rule3(S, n) == {r \in Registered(S) : r.id = n /\ r.ns # "items" /\ r.src = S}
Rule4(S, n) == {r \in Registered(S) : r.id = n}
Preferred(S, n) ==
    IF Rule1(S, n) # {} THEN Rule1(S, n)
    ELSE IF Rule2(S, n) # {} THEN Rule2(S, n)
    ELSE IF Rule3(S, n) # {} THEN Rule3(S, n)
    ELSE Rule4(S, n)

\* the sources whose call has run and whose first entry carries the blueprint
Holders == {S \in resolved : EntriesOfSource(S) # <<>>}
InputsAfter(S) == EntriesOfSource(S)[1].blueprints[1].inputs

\* C1: a numeric id registered under several (namespace, source) pairs
\* resolves to the items entry of the referencing source, else an items entry
\* of any source, else a non-items entry of the referencing source, else any
\* entry; a lower rule is used only when no higher rule has a candidate.
C1_PriorityChain ==
    \A S \in Holders : \A p \in 1..Len(bp0) :
        (IsNumRef(bp0[p]) /\ Preferred(S, RefNum(bp0[p])) # {}) =>
            \E r \in Preferred(S, RefNum(bp0[p])) :
                InputsAfter(S)[p] = WithGuid(bp0[p], r.guid)

\* id 1 is spawns/mapA and items/base and spawns/base: the reference from mapA
\* takes the items entry of base (rule 2), not the spawns entry of mapA (rule 3)
C1_Witness ==
    /\ "mapA" \in Holders
    /\ bp0 # <<>> /\ bp0[1] = StrRef(<<"1">>)
    /\ {<<r.ns, r.src>> : r \in Rule4("mapA", 1)} =
            {<<"spawns", "mapA">>, <<"items", "base">>, <<"spawns", "base">>}
    /\ \E r \in Rule2("mapA", 1) : r.src = "base" /\ InputsAfter("mapA")[1] = StrRef(r.guid)

\* where the entries of the whole run register id n
RegisteredAnywhere(n) ==
    {<<r.ns, r.src>> : r \in {x \in UNION {RegsOf(src) : src \in Sources} : x.id = n}}
C2_Scenario(n) ==
    RegisteredAnywhere(n) = {<<"items", "base">>, <<"items", "mapA">>, <<"spawns", "base">>}

\* C2: with an id registered under items/base, items/mapA and spawns/base, a
\* reference from mapA takes the items/mapA entry and a reference from any
\* other source takes the items/base entry.
C2_MapThenBase ==
    \A n \in IdPool \ {0} : C2_Scenario(n) =>
        \A S \in Holders : \A p \in 1..Len(bp0) :
            (IsNumRef(bp0[p]) /\ RefNum(bp0[p]) = n) =>
                \E r \in RegsOf(IF S = "mapA" THEN "mapA" ELSE "base") :
                    /\ r.id = n /\ r.ns = "items"
                    /\ InputsAfter(S)[p] = WithGuid(bp0[p], r.guid)

\* all three sources have resolved a reference to id 1 in the scenario
C2_Witness ==
    /\ C2_Scenario(1)
    /\ Holders = Sources
    /\ bp0 # <<>> /\ bp0[1] = StrRef(<<"1">>)
    /\ InputsAfter("mapA")[1] = StrRef(GuidOf("mapA", 1))
    /\ InputsAfter("mapB")[1] = InputsAfter("base")[1]
    /\ InputsAfter("mapB")[1] # bp0[1]

\* C3: a numeric reference "ID" or "ID x N" with no entry in the id index
\* stays in the list as written and at its position, a diagnostic is emitted,
\* and the other references of the list are still resolved.
C3_UnresolvedKept ==
    \A S \in Holders :
        /\ Len(InputsAfter(S)) = Len(bp0)
        /\ \A p \in 1..Len(bp0) :
              (bp0[p].form = "str" /\ IsNumRef(bp0[p])) =>
                  IF Rule4(S, RefNum(bp0[p])) = {}
                  THEN /\ InputsAfter(S)[p] = bp0[p]
                       /\ \E i \in 1..Len(diags[S]) :
                             diags[S][i] = Diag("unresolvable", RefNum(bp0[p]))
                  ELSE \E r \in Rule4(S, RefNum(bp0[p])) :
                             InputsAfter(S)[p] = WithGuid(bp0[p], r.guid)

\* "9 x 3" has no entry and is kept in front of a reference that is resolved
C3_Witness ==
    /\ "base" \in Holders
    /\ bp0 = <<StrRef(<<"9", " ", "x", " ", "3">>), StrRef(<<"1">>)>>
    /\ InputsAfter("base")[1] = bp0[1]
    /\ IsGuid(InputsAfter("base")[2].s)
    /\ diags["base"] = <<Diag("unresolvable", 9)>>

(***************************************************************************)
(* Properties of the parser                                                *)
(***************************************************************************)
\* bracket nesting of a text: openers are a lone [ or { and a key line whose
\* value is [ or {; closers are a lone ] or }
IsOpener(l) ==
    \/ content(l) \in {OpenBracket, OpenBrace}
    \/ Len(content(l)) >= 2 /\ content(l)[Len(content(l))] \in {"[", "{"}
          /\ IsSpace(content(l)[Len(content(l)) - 1])
IsCloser(l) == content(l) \in {CloseBracket, CloseBrace}

RECURSIVE DepthAfter(_, _)
\* nesting depth after the first n lines, -1 once a closer had nothing to close
DepthAfter(lines, n) ==
    IF n = 0 THEN 0
    ELSE LET d == DepthAfter(lines, n - 1) IN
         IF d < 0 THEN -1
         ELSE IF IsOpener(lines[n]) THEN d + 1
         ELSE IF IsCloser(lines[n]) THEN d - 1
         ELSE d

WellNested(lines) == DepthAfter(lines, Len(lines)) = 0

\* C6: parse_dat never raises on a text whose bracket nesting is well formed;
\* every content line, however malformed, yields some value for its key.
C6_NeverRaises == (dphase # "in" /\ WellNested(text)) => dphase # "raised"

\* C7: _strip_comment removes exactly the text from the first // that lies
\* outside a double-quoted span (an even number of quotes before it) to the end
\* of the line, with the blanks before it; a // inside quotes and a single /
\* are kept.
QuotesBefore(line, i) == Cardinality({j \in 1..(i - 1) : line[j] = "\""})
CommentStarts(line) ==
    {i \in 1..(Len(line) - 1) :
        line[i] = "/" /\ line[i + 1] = "/" /\ QuotesBefore(line, i) % 2 = 0}
FirstCommentStart(line) ==
    CHOOSE i \in CommentStarts(line) : \A j \in CommentStarts(line) : i <= j
C7_CommentStripping ==
    lphase = "stripped" =>
        IF CommentStarts(lin) = {} THEN lout.res = lin
        ELSE lout.res = rstrip(SubSeq(lin, 1, FirstCommentStart(lin) - 1))

\* a // inside a quoted span was kept and a later // outside was cut
C7_Witness ==
    /\ lphase = "stripped"
    /\ lin = <<"\"", "/", "/", "\"", "/", "/", "a">>
    /\ lout.res = <<"\"", "/", "/", "\"">>

\* C8: a key with no value takes the nested block when the next content line
\* is exactly [ or {, and the lines after the block's closing line are parsed
\* as the rest of the mapping; otherwise it is the flag true and the next line
\* is parsed as an ordinary line.  Stated for the bare key on the first line
\* of a text: the lines from a bare key on are themselves a text, and a
\* nested mapping is parsed by the same function.
IsBareKeyLine(l) ==
    /\ content(l) # <<>>
    /\ content(l) \notin {CloseBrace, CloseBracket}
    /\ ~_split_key_value(content(l)).raised
    /\ _split_key_value(content(l)).key # <<>>
    /\ ~_split_key_value(content(l)).hasval

ContentAfter(lines, s) == {j \in (s + 1)..Len(lines) : content(lines[j]) # <<>>}
FirstContentAfter(lines, s) ==
    CHOOSE j \in ContentAfter(lines, s) : \A h \in ContentAfter(lines, s) : j <= h

RECURSIVE ApplyWrites(_, _)
\* the assignments ws executed in order on the dict d
ApplyWrites(d, ws) ==
    IF ws = <<>> THEN d ELSE ApplyWrites(DictSet(d, Head(ws).k, Head(ws).val), Tail(ws))

\* the closing line of a block without nested brackets that opens at line j0
HasBracketChar(l) == \E i \in 1..Len(l) : l[i] \in {"[", "{"}
FlatClosers(lines, j0, closers) ==
    {j \in (j0 + 1)..Len(lines) :
        /\ content(lines[j]) \in closers
        /\ \A h \in (j0 + 1)..(j - 1) :
              content(lines[h]) \notin closers /\ ~HasBracketChar(content(lines[h]))}

BareKeyAt(lines, s) ==
    LET key == _split_key_value(content(lines[s])).key
        r == _parse_mapping(lines, s)
    IN IF ContentAfter(lines, s) # {}
          /\ content(lines[FirstContentAfter(lines, s)]) \in {OpenBracket, OpenBrace}
       THEN LET j0 == FirstContentAfter(lines, s)
                isArr == content(lines[j0]) = OpenBracket
                blk == IF isArr THEN _parse_array(lines, j0 + 1)
                       ELSE _parse_mapping(lines, j0 + 1)
                rest == _parse_mapping(lines, blk.i)
                closers == IF isArr THEN {CloseBracket} ELSE {CloseBrace, CloseBracket}
            IN /\ r.raised = (blk.raised \/ rest.raised)
               /\ ~r.raised =>
                    /\ r.res = PyMap(ApplyWrites(<<Pair(key, blk.res)>>, rest.res.kids))
                    /\ blk.res.t = IF isArr THEN "list" ELSE "map"
                    /\ r.i = rest.i
                    /\ \A j \in FlatClosers(lines, j0, closers) : blk.i = j + 1
       ELSE LET rest == _parse_mapping(lines, s + 1)
            IN /\ r.raised = rest.raised
               /\ ~r.raised =>
                    /\ r.res = PyMap(ApplyWrites(<<Pair(key, PyTrue)>>, rest.res.kids))
                    /\ r.i = rest.i

RECURSIVE UniqueKeysDeep(_)
UniqueKeysDeep(v) ==
    /\ v.t = "map" =>
          \A i, j \in 1..Len(v.kids) : v.kids[i].k = v.kids[j].k => i = j
    /\ \A i \in 1..Len(v.kids) : UniqueKeysDeep(v.kids[i].val)

LastWrite(log, k) ==
    log[CHOOSE i \in 1..Len(log) :
            log[i].k = k /\ \A j \in (i + 1)..Len(log) : log[j].k # k].val

LastWriteWins(r) ==
    /\ UniqueKeysDeep(r.res)
    /\ {r.res.kids[i].k : i \in 1..Len(r.res.kids)} = {r.log[i].k : i \in 1..Len(r.log)}
    /\ \A i \in 1..Len(r.res.kids) : r.res.kids[i].val = LastWrite(r.log, r.res.kids[i].k)

C9_LastWriteWins == dphase = "parsed" => LastWriteWins(dout)

\* K is assigned a scalar, then a nested block holding its own K, then a flag
C9_Witness ==
    /\ dphase = "parsed"
    /\ text = <<(<<"K", " ", "1">>), (<<"K", " ", "[">>), (<<"]">>), (<<"K">>)>>
    /\ Len(dout.log) = 3
    /\ dout.res = PyMap(<<Pair(<<"K">>, PyTrue)>>)

\* C10: coercion runs on the quote-stripped token in the order boolean,
\* integer, float, string; a token written with surrounding double quotes and
\* the same token written without them coerce to the same typed value.
IsWrapped(tok) == Len(tok) >= 2 /\ tok[1] = "\"" /\ tok[Len(tok)] = "\""

ExpectedType(tok) ==
    IF Lower(tok) \in {<<"t", "r", "u", "e">>, <<"f", "a", "l", "s", "e">>} THEN "bool"
    ELSE IF IsIntLit(tok) THEN "int"
    ELSE IF IsFloatLit(tok) THEN "float"
    ELSE "str"

C10_QuotedCoercion ==
    lphase = "coerced" =>
        /\ lout.quoted.t = ExpectedType(lin)
        /\ ~IsWrapped(lin) => lout.quoted = lout.bare

\* "13" and 13 are the integer 13
C10_Witness ==
    /\ lphase = "coerced"
    /\ lin = <<"1", "3">>
    /\ lout.quoted = PyInt(13)
    /\ lout.bare = PyInt(13)

\* C11: a mapping block is closed by a line that is exactly } and an array
\* block by a line that is exactly ], and by no other line: in the block a
\* bare key opens, a ] line of a mapping and a } line of an array, reached
\* over lines without brackets and with lines after it, does not end the block.
OtherCloser(opener) == IF opener = OpenBrace THEN CloseBracket ELSE CloseBrace

FlatUpTo(lines, j0, j) ==
    \A h \in (j0 + 1)..(j - 1) :
        /\ content(lines[h]) \notin {CloseBrace, CloseBracket}
        /\ ~HasBracketChar(content(lines[h]))

BlockAt(lines, j0) ==
    IF content(lines[j0]) = OpenBracket THEN _parse_array(lines, j0 + 1)
    ELSE _parse_mapping(lines, j0 + 1)

C11_ExactClosers ==
    (/\ dphase # "in"
     /\ text # <<>>
     /\ IsBareKeyLine(text[1])
     /\ ContentAfter(text, 1) # {}
     /\ content(text[FirstContentAfter(text, 1)]) \in {OpenBracket, OpenBrace}) =>
        LET j0 == FirstContentAfter(text, 1)
            blk == BlockAt(text, j0)
        IN \A j \in (j0 + 1)..(Len(text) - 1) :
              (/\ content(text[j]) = OtherCloser(content(text[j0]))
               /\ FlatUpTo(text, j0, j)
               /\ ~blk.raised) => blk.i > j + 1

(***************************************************************************)
(* Properties of _parse_item_ref                                           *)
(***************************************************************************)
\* a 32-character token of hexadecimal digits in either case
UpperHex == {"A", "B", "C", "D", "E", "F"}
IsHex32(s) == Len(s) = GuidLen /\ \A i \in 1..Len(s) : s[i] \in HexChars \cup UpperHex

\* s is head followed by " x N" for a decimal number N
IsTimesN(s, head) ==
    /\ Len(s) > Len(head) + Len(XSep)
    /\ SubSeq(s, 1, Len(head) + Len(XSep)) = head \o XSep
    /\ \A i \in (Len(head) + Len(XSep) + 1)..Len(s) : IsDigit(s[i])
TimesN(s, head) == DigitsVal(SubSeq(s, Len(head) + Len(XSep) + 1, Len(s)), 0)

C20_ObjectNumericLookup ==
    (/\ iphase = "parsed"
     /\ item.form = "dict"
     /\ isdigit(item.s)
     /\ _parse_item_ref(StrRef(item.s), owner_guid, id_to_guid).guid # <<>>) =>
        iout.guid = _parse_item_ref(StrRef(item.s), owner_guid, id_to_guid).guid

(***************************************************************************)
(* Properties of resolve_spawn_table_items                                 *)
(***************************************************************************)
RECURSIVE LoopSteps(_)
LoopSteps(n) ==
    IF n = 0 THEN 0 ELSE 1 + 2 * Len(tables_by_id[n].table_entries) + LoopSteps(n - 1)

\* one step for the outermost return, and for every table one step to start
\* its loop and at most two per entry
StepBound == 1 + LoopSteps(MaxTable)

\* C4: resolve_spawn_table_items terminates on every finite tables_by_id: no
\* table's loop is started twice in one top-level call, the call depth and the
\* number of steps are bounded by the size of the dict, and until the result
\* is returned a step can always be taken.
C4_Terminates ==
    sphase \in {"run", "done"} =>
        /\ \A t \in TableIds : expanded[t] <= 1
        /\ Len(stack) <= Cardinality(visited)
        /\ steps <= StepBound
        /\ sphase = "run" => ENABLED NextSpawn

Spawn(t) == [ref_type |-> "spawn", ref_id |-> t]
Asset(a) == [ref_type |-> "asset", ref_id |-> a]

\* a cycle 1 -> 2 -> 3 -> 1 was followed back to its start and resolved to nothing
C4_Witness ==
    /\ sphase = "done"
    /\ table_id = 1
    /\ tables_by_id[1].table_entries = <<Spawn(2)>>
    /\ tables_by_id[2].table_entries = <<Spawn(3)>>
    /\ tables_by_id[3].table_entries = <<Spawn(1)>>
    /\ visited = {1, 2, 3}
    /\ \A t \in {1, 2, 3} : expanded[t] = 1
    /\ sresult = {}

\* the tables reachable from table_id through spawn-kind entries
EntriesOfTable(t) ==
    IF t \in DOMAIN tables_by_id THEN tables_by_id[t].table_entries ELSE <<>>
RefsOfKind(t, kind) ==
    {EntriesOfTable(t)[i].ref_id :
        i \in {j \in 1..Len(EntriesOfTable(t)) : EntriesOfTable(t)[j].ref_type = kind}}

RECURSIVE ReachFrom(_)
ReachFrom(S) ==
    LET N == S \cup UNION {RefsOfKind(t, "spawn") : t \in S}
    IN IF N = S THEN S ELSE ReachFrom(N)

\* C5: with a fresh visited set the result is exactly the set of ref_ids of
\* the asset-kind entries of the tables reachable from table_id through
\* spawn-kind references; missing tables and guid-kind entries add nothing.
C5_ReachableAssets ==
    sphase = "done" =>
        sresult = UNION {RefsOfKind(t, "asset") : t \in ReachFrom({table_id})}

\* table 2 is referenced twice by table 1: its asset is returned, once
C5_Witness ==
    /\ sphase = "done"
    /\ table_id = 1
    /\ tables_by_id[1].table_entries = <<Spawn(2), Spawn(2)>>
    /\ tables_by_id[2].table_entries = <<Asset(42)>>
    /\ expanded[2] = 1
    /\ sresult = {42}

(***************************************************************************)
(* Properties of build_crafting_graph                                      *)
(***************************************************************************)
\* the first entry and its first blueprint
TheOwner == Lower(graph_entries[1].guid)
TheBlueprint == graph_entries[1].blueprints[1]

Resolve(ref, owner) == _parse_item_ref(ref, owner, build_id_to_guid(<<>>, graph_entries))
\* the positions of refs that resolve to an id
Resolvable(refs, owner) == {i \in 1..Len(refs) : Resolve(refs[i], owner).guid # <<>>}
ResolvedIds(refs, owner) == {Resolve(refs[i], owner).guid : i \in Resolvable(refs, owner)}
CraftTargets(bp, owner) ==
    IF ResolvedIds(bp.outputs, owner) \subseteq {owner} THEN {owner}
    ELSE ResolvedIds(bp.outputs, owner)
IsCraftName(name) == name # "Salvage" /\ name # "Repair"

EdgeSet == {edges[i] : i \in 1..Len(edges)}
NodeIds == {nodes[i].id : i \in 1..Len(nodes)}

\* C12: the edges of a blueprint are, by its name: for "Salvage" salvage
\* edges owner -> each resolved output, for "Repair" repair edges each
\* resolved input -> owner, for every other name craft edges each resolved
\* input -> each craft target; there is no edge of another type or direction
C12_EdgesByName ==
    gphase = "built" =>
        LET bp == TheBlueprint
            owner == TheOwner
            ins == ResolvedIds(bp.inputs, owner)
            outs == ResolvedIds(bp.outputs, owner)
        IN {<<e.source, e.target, e.type>> : e \in EdgeSet} =
              IF bp.name = "Salvage" THEN {<<owner, o, "salvage">> : o \in outs}
              ELSE IF bp.name = "Repair" THEN {<<i, owner, "repair">> : i \in ins}
              ELSE {<<i, t, "craft">> : i \in ins, t \in CraftTargets(bp, owner)}

C12_Witness ==
    /\ gphase = "built"
    /\ TheBlueprint.name = "Repair"
    /\ TheBlueprint.outputs # <<>>
    /\ \E e \in EdgeSet : e.type = "repair" /\ e.source = ScrapGuid /\ e.target = ItemOwner

SalvageScenario ==
    /\ TheBlueprint = Blueprint("Salvage", <<ThisRef>>, <<StrRef(ScrapGuid \o TimesThree)>>)

\* C13: a Salvage blueprint gives one edge per resolvable output, in order,
\* and none for its inputs; inputs ["this"], outputs ["SCRAP x 3"] give the
\* single edge owner -> SCRAP (salvage, quantity 3), the nodes of the owner
\* and of SCRAP (the other entry has no blueprint), and no self-loop
C13_SalvageEdges ==
    (gphase = "built" /\ TheBlueprint.name = "Salvage") =>
        LET bp == TheBlueprint
            owner == TheOwner
            outs == Resolvable(bp.outputs, owner)
        IN /\ Len(edges) = Cardinality(outs)
           /\ \A i \in outs :
                 LET k == Cardinality({j \in outs : j <= i})
                     r == Resolve(bp.outputs[i], owner)
                 IN /\ edges[k].source = owner
                    /\ edges[k].target = r.guid
                    /\ edges[k].type = "salvage"
                    /\ edges[k].quantity = r.qty
           /\ SalvageScenario =>
                 /\ Len(edges) = 1
                 /\ edges[1].source = owner /\ edges[1].target = ScrapGuid
                 /\ edges[1].type = "salvage" /\ edges[1].quantity = 3
                 /\ Len(nodes) = 2 /\ NodeIds = {owner, ScrapGuid}
                 /\ \A e \in EdgeSet : e.source # e.target

C13_Witness ==
    /\ gphase = "built"
    /\ SalvageScenario
    /\ Len(edges) = 1
    /\ edges[1].target = ScrapGuid

C15_Byproduct ==
    gphase = "built" =>
        LET bp == TheBlueprint
            owner == TheOwner
            outs == ResolvedIds(bp.outputs, owner)
        IN \A e \in EdgeSet :
              e.byproduct <=> (/\ e.type = "craft"
                               /\ e.target # owner
                               /\ Cardinality(outs) > 1)

\* the maps the prefixes are given for
ActiveMaps == DictKeys(map_source_prefixes)
\* the source path of entry is under no map prefix
UnderNoPrefix(entry) ==
    \A i \in 1..Len(map_source_prefixes) : \A j \in 1..Len(map_source_prefixes[i].val) :
        ~StartsWith(entry.source_path, map_source_prefixes[i].val[j])
BarsCore(m) ==
    /\ DictHas(crafting_blacklists, m)
    /\ ~DictGet(crafting_blacklists, m).allow_core_blueprints
\* the blacklist rule of C18
LeftOut(entry) ==
    /\ crafting_blacklists # <<>>
    /\ UnderNoPrefix(entry)
    /\ \A m \in ActiveMaps : BarsCore(m)
\* the entries whose blueprints make nodes and edges
Processed(entry) == entry.blueprints # <<>> /\ entry.guid # <<>> /\ ~LeftOut(entry)

RECURSIVE BlueprintInstances(_)
\* the blueprints of the first k entries that are processed, as <<entry, blueprint>> positions
BlueprintInstances(k) ==
    IF k = 0 THEN <<>>
    ELSE BlueprintInstances(k - 1) \o
         (IF Processed(graph_entries[k])
          THEN [j \in 1..Len(graph_entries[k].blueprints) |-> <<k, j>>] ELSE <<>>)

BpAt(inst) == graph_entries[inst[1]].blueprints[inst[2]]
OwnerAt(inst) == Lower(graph_entries[inst[1]].guid)

\* the number of edges of one blueprint: one per resolvable output of a
\* salvage, per resolvable input of a repair, per resolvable input and
\* listed target of a craft
EdgeCount(inst) ==
    LET bp == BpAt(inst)
        owner == OwnerAt(inst)
        ins == Cardinality(Resolvable(bp.inputs, owner))
        outs == Cardinality(Resolvable(bp.outputs, owner))
    IN IF bp.name = "Salvage" THEN outs
       ELSE IF bp.name = "Repair" THEN ins
       ELSE ins * (IF outs = 0 THEN 1 ELSE outs)

RECURSIVE EdgesUpTo(_, _)
\* the number of edges of the first n blueprint instances
EdgesUpTo(insts, n) == IF n = 0 THEN 0 ELSE EdgesUpTo(insts, n - 1) + EdgeCount(insts[n])

\* the blueprint instance the p-th edge comes from, given the numbers upto[n]
\* of edges of the first n instances
InstanceOfEdge(upto, p) ==
    CHOOSE n \in 1..(Len(upto) - 1) : upto[n] < p /\ p <= upto[n + 1]

\* C16: the edges of one blueprint instance carry one blueprintId, and edges
\* of two blueprint instances, on one entry or on two, alike or not, carry
\* different ones
C16_BlueprintIds ==
    gphase = "built" =>
        \A insts \in {BlueprintInstances(Len(graph_entries))} :
        \A upto \in {[n \in 1..(Len(insts) + 1) |-> EdgesUpTo(insts, n - 1)]} :
        \A from \in {[p \in 1..Len(edges) |-> InstanceOfEdge(upto, p)]} :
           /\ Len(edges) = upto[Len(insts) + 1]
           /\ \A p, q \in 1..Len(edges) :
                 (edges[p].blueprintId = edges[q].blueprintId) <=> (from[p] = from[q])

C16_Witness ==
    /\ gphase = "built"
    /\ Len(graph_entries) = 2
    /\ graph_entries[1].blueprints = graph_entries[2].blueprints
    /\ graph_entries[1].guid # graph_entries[2].guid
    /\ Len(edges) = 2
    /\ edges[1].blueprintId # edges[2].blueprintId

NoTwoNodesShareAnId == \A i, j \in 1..Len(nodes) : nodes[i].id = nodes[j].id => i = j
OwnIds(es) == {Lower(es[k].guid) : k \in 1..Len(es)} \ {<<>>}
\* the ids the references of bp resolve to
RefIds(bp, owner) == ResolvedIds(bp.inputs, owner) \cup ResolvedIds(bp.outputs, owner)
\* those of them the edges of bp use
UsedRefIds(bp, owner) ==
    IF bp.name = "Salvage" THEN ResolvedIds(bp.outputs, owner)
    ELSE IF bp.name = "Repair" THEN ResolvedIds(bp.inputs, owner)
    ELSE RefIds(bp, owner)
RefIdsOfEntry(entry) ==
    UNION {RefIds(entry.blueprints[j], Lower(entry.guid)) : j \in 1..Len(entry.blueprints)}
ProcessedEntries == SelectSeq(graph_entries, Processed)

\* C17 as stated: one node per id that is an entry's own id or a resolved
\* reference of any blueprint
C17_NodePerId ==
    gphase = "built" =>
        /\ NoTwoNodesShareAnId
        /\ NodeIds = OwnIds(graph_entries)
                        \cup UNION {RefIdsOfEntry(graph_entries[k]) : k \in 1..Len(graph_entries)}

\* C17 amended: one node per id that is the own id of an entry whose
\* blueprints are in the graph (it has a blueprint and an id and is not left
\* out by the blacklist rule) or a resolved reference the edges of such a
\* blueprint use (outputs of a Salvage, inputs of a Repair, inputs and
\* outputs of any other blueprint); no two nodes share an id and no such id
\* is without a node
C17_NodePerUsedId ==
    gphase = "built" =>
        /\ NoTwoNodesShareAnId
        /\ NodeIds = OwnIds(ProcessedEntries)
                        \cup LET insts == BlueprintInstances(Len(graph_entries)) IN
                             UNION {UsedRefIds(BpAt(insts[n]), OwnerAt(insts[n])) : n \in 1..Len(insts)}

C17_Witness ==
    /\ gphase = "built"
    /\ Len(graph_entries) = 2
    /\ graph_entries[1].guid = ItemOwner
    /\ Len(graph_entries[1].blueprints) = 2
    /\ graph_entries[1].blueprints[1].name = "Salvage"
    /\ graph_entries[1].blueprints[2].name = "Craft"
    /\ graph_entries[2].guid = ItemGuid
    /\ crafting_blacklists = <<>>
    /\ Len(nodes) = 2
    /\ NodeIds = {ItemOwner, ScrapGuid}

\* C18: with blacklists given, the blueprints of an entry are left out of
\* the graph exactly when its source path is under no map prefix and every
\* active map has a blacklist that disallows core blueprints
C18_CoreBlueprintsLeftOut ==
    (gphase = "built" /\ crafting_blacklists # <<>>) =>
        \A k \in 1..Len(graph_entries) :
            LET id == Lower(graph_entries[k].guid) IN
            (id \notin NodeIds /\ \A e \in EdgeSet : e.target # id)
               <=> (UnderNoPrefix(graph_entries[k]) /\ \A m \in ActiveMaps : BarsCore(m))

C18_Witness ==
    /\ gphase = "built"
    /\ ActiveMaps = {"mapA", "mapB"}
    /\ crafting_blacklists = <<Pair("mapA", CraftingBlacklist(FALSE))>>
    /\ Len(graph_entries) = 1
    /\ graph_entries[1].source_path = CorePath
    /\ \E e \in EdgeSet : e.target = Lower(graph_entries[1].guid)

\* C21: a reference that _parse_item_ref normalizes to a non-empty id has
\* quantity >= 1, for every written "x N" and every Amount
C21_QuantityAtLeastOne ==
    (iphase = "parsed" /\ iout.guid # <<>>) => iout.qty >= 1

(***************************************************************************)
(* Properties of _ensure_guids                                             *)
(***************************************************************************)
\* C22: an entry without guid gets a 32-character id that starts with
\* "00000" and is the same for every entry of the run with the same type and
\* numeric id, whatever its name, path or position; an entry with a guid is
\* left as it is; afterwards no entry has an empty guid
C22_SyntheticGuids ==
    (cphase = "done" /\ call.fn = "_ensure_guids") =>
        /\ Len(cret) = Len(call.entries)
        /\ \A k \in 1..Len(cret) :
              LET a == call.entries[k]
                  b == cret[k]
              IN /\ b.guid # <<>>
                 /\ b = [a EXCEPT !.guid = b.guid]
                 /\ a.guid # <<>> => b.guid = a.guid
                 /\ a.guid = <<>> =>
                       /\ Len(b.guid) = 32
                       /\ SubSeq(b.guid, 1, 5) = <<"0", "0", "0", "0", "0">>
                       /\ \A j \in 1..Len(cret) :
                             (/\ call.entries[j].guid = <<>>
                              /\ call.entries[j].type = a.type
                              /\ call.entries[j].id = a.id) => cret[j].guid = b.guid

C22_Witness ==
    /\ cphase = "done"
    /\ call.fn = "_ensure_guids"
    /\ Len(call.entries) = 2
    /\ call.entries[1].guid = <<>>
    /\ call.entries[2].guid = <<>>
    /\ call.entries[1].type = call.entries[2].type
    /\ call.entries[1].id = call.entries[2].id
    /\ call.entries[1].name # call.entries[2].name
    /\ cret[1].guid = cret[2].guid
    /\ Len(cret[1].guid) = 32

(***************************************************************************)
(* Properties of the id indexes                                            *)
(***************************************************************************)
AllEntries == {base_entries} \cup {map_entries[m] : m \in Maps}

\* C23: the id index of the resolver holds nothing under id 0 and the by_id
\* table nothing under "0", and a reference to id 0 in a blueprint stays as
\* written, however many entries have id 0
C23_ZeroNeverIndexed ==
    /\ \A m \in Maps :
          /\ ~DictHas(build_id_map(base_entries, "base", <<>>), 0)
          /\ ~DictHas(build_id_map(map_entries[m], m, base_entries), 0)
    /\ by_id.kind = "built" => ~DictHas(by_id.table, <<"0">>)
    /\ \A es \in AllEntries : \A k \in 1..Len(es) : \A j \in 1..Len(es[k].blueprints) :
          es[k].blueprints[j].inputs = <<bp0[1]>>

C23_Witness ==
    /\ by_id.kind = "built"
    /\ by_id.table # <<>>
    /\ resolved = Sources
    /\ Len(base_entries) >= 2
    /\ base_entries[1].id = 0
    /\ base_entries[2].id = 0
    /\ base_entries[1].blueprints[1].inputs = <<StrRef(<<"0">>)>>
    /\ \E m \in Maps : map_entries[m] # <<>> /\ map_entries[m][1].id = 0

(***************************************************************************)
(* Properties of CraftingBlacklist.merge                                   *)
(***************************************************************************)
\* C24: the merged blacklist allows core blueprints exactly when every
\* member does, and blocks the union of what the members block; it is fixed
\* by the set of members (not by their order or repetition); the empty list
\* gives the default blacklist
C24_Merge ==
    (cphase = "done" /\ call.fn = "merge") =>
        LET members == {call.blacklists[i] : i \in 1..Len(call.blacklists)} IN
        /\ cret.allow_core_blueprints = (\A b \in members : b.allow_core_blueprints)
        /\ cret.blocked_inputs = UNION {b.blocked_inputs : b \in members}
        /\ cret.blocked_outputs = UNION {b.blocked_outputs : b \in members}
        /\ members = {} =>
              /\ cret.allow_core_blueprints
              /\ cret.blocked_inputs = {}
              /\ cret.blocked_outputs = {}

C24_Witness ==
    /\ cphase = "done"
    /\ call.fn = "merge"
    /\ call.blacklists = <<Blacklist(TRUE, {"guid-a"}, {}), Blacklist(FALSE, {}, {"guid-b"})>>
    /\ cret = Blacklist(FALSE, {"guid-a"}, {"guid-b"})

(***************************************************************************)
(* Properties of map_filter                                                *)
(***************************************************************************)
\* the entry comes from one of the named maps
FromNamedMap(entry, map_names) ==
    \E m \in map_names : StartsWith(entry.source_path, MapPrefix(m))
\* the entry's id can spawn on one of the named maps
SpawnsOnNamedMap(entry, map_names, spawnable_ids) ==
    \E m \in map_names \cap DOMAIN spawnable_ids : entry.id \in spawnable_ids[m]

\* C25: map_filter accepts an entry exactly when it is a map-specific entry
\* whose origin map is named or its id is spawnable on a named map
C25_MapFilter ==
    (cphase = "done" /\ call.fn = "map_filter") =>
        (cret <=> \/ FromNamedMap(call.entry, call.map_names)
                  \/ SpawnsOnNamedMap(call.entry, call.map_names, call.spawnable_ids))

(***************************************************************************)
(* Properties of _non_empty_columns                                        *)
(***************************************************************************)
Kept(i) == \E k \in 1..Len(cret) : cret[k] = i
\* the rows in which column i (from 0) is empty
EmptyRows(i) ==
    {r \in 1..Len(call.rows) :
        IF i < Len(call.rows[r]) THEN call.rows[r][i + 1] \in EmptyValues ELSE TRUE}
ColumnsDone == cphase = "done" /\ call.fn = "_non_empty_columns"

ParseEnded == dphase \in {"parsed", "raised"}
StepsOf(tr) == {k \in 1..Len(tr) : tr[k].kind = "step"}
ReturnsOf(tr) == {k \in 1..Len(tr) : tr[k].kind = "ret"}

\* C27: parse_dat ends on every text; the cursor of the loops never moves
\* backwards and every loop pass or nested call moves it on by at least one
\* line, so the lines looked at by the loops are strictly increasing (no
\* line is parsed twice); the index a nested call hands back is greater
\* than the index of the line that opened the block and at most the number
\* of lines (one past the last line, counting lines from 1), and the caller
\* goes on from there
C27_CursorProgress ==
    ParseEnded =>
        \A tr \in {dout.trace} :
            /\ \A k \in StepsOf(tr) : tr[k].i \in 1..Len(text)
            /\ \A j \in StepsOf(tr) : \A k \in StepsOf(tr) : j < k => tr[j].i < tr[k].i
            /\ \A k \in ReturnsOf(tr) :
                  /\ tr[k].i > tr[k].open
                  /\ tr[k].i <= Len(text) + 1
                  /\ \A j \in StepsOf(tr) : j < k => tr[j].i < tr[k].i
                  /\ \A j \in StepsOf(tr) : j > k => tr[j].i >= tr[k].i
                  /\ (k < Len(tr) /\ tr[k + 1].kind = "step") => tr[k + 1].i = tr[k].i
            /\ \A k \in 1..Len(tr) : tr[k].i <= dout.i
            /\ dout.i \in 1..(Len(text) + 1)
            /\ Cardinality(StepsOf(tr)) <= Len(text)

\* an array holding a mapping: both nested calls hand back the index after
\* their closing line
C27_Witness ==
    /\ dphase = "parsed"
    /\ text = <<<<"K", " ", "[">>, <<"{">>, <<"}">>, <<"]">>>>
    /\ dout.trace = <<Step(1), Step(2), Step(3), Returned(2, 4), Step(4), Returned(1, 5)>>
    /\ dout.i = 5

(***************************************************************************)
(* Properties of the edges' end points                                     *)
(***************************************************************************)
\* C28: in every graph build_crafting_graph returns, the source and the
\* target of every edge are ids of nodes of the node list, whatever the
\* blueprint's name
C28_NoDanglingEdge ==
    gphase = "built" =>
        \A k \in 1..Len(edges) :
            /\ \E n \in 1..Len(nodes) : nodes[n].id = edges[k].source
            /\ \E n \in 1..Len(nodes) : nodes[n].id = edges[k].target

\* a salvage into a guid that no entry has: the target is a stub node
C28_Witness ==
    /\ gphase = "built"
    /\ \E k \in 1..Len(edges) :
          /\ edges[k].type = "salvage"
          /\ edges[k].source = ItemOwner
          /\ edges[k].target = ScrapGuid
    /\ \E n \in 1..Len(nodes) : nodes[n] = GNode(ScrapGuid, TRUE)
    /\ \A k \in 1..Len(graph_entries) : graph_entries[k].guid # ScrapGuid

(***************************************************************************)
(* Properties of a second application of _resolve_blueprint_ids            *)
(***************************************************************************)
\* C29: when every entry guid is 32 characters of [0-9a-f], applying
\* _resolve_blueprint_ids a second time to the same entries with the same
\* source and extra entries changes no blueprint input or output
C29_Idempotent ==
    (/\ cphase = "twice"
     /\ call.fn = "_resolve_blueprint_ids"
     /\ \A k \in 1..Len(call.entries) : IsGuid(call.entries[k].guid)
     /\ \A k \in 1..Len(call.extra_entries) : IsGuid(call.extra_entries[k].guid)) =>
        \A k \in 1..Len(cret.first) :
            \A b \in 1..Len(cret.first[k].blueprints) :
                /\ cret.second[k].blueprints[b].inputs = cret.first[k].blueprints[b].inputs
                /\ cret.second[k].blueprints[b].outputs = cret.first[k].blueprints[b].outputs

(***************************************************************************)
(* Properties of the blocked sets of the blacklists                        *)
(***************************************************************************)
\* the blacklists with their blocked sets emptied
Unblocked(blacklists) ==
    [i \in 1..Len(blacklists) |->
        Pair(blacklists[i].k,
             [blacklists[i].val EXCEPT !.blocked_inputs = {}, !.blocked_outputs = {}])]

\* C30: the nodes and edges build_crafting_graph returns do not depend on
\* the blocked_inputs / blocked_outputs sets of the blacklists: the run on
\* the same inputs with these sets emptied returns the same graph, so two
\* runs that differ only in these sets return the same graph
C30_BlockedSetsIgnored ==
    gphase = "built" =>
        \A g \in {build_crafting_graph(graph_entries, Unblocked(crafting_blacklists),
                                       map_source_prefixes)} :
            /\ g.nodes = nodes
            /\ g.edges = edges

\* the only blacklist allows core blueprints and blocks both the input and
\* the output of the entry's blueprint; the edge is in the graph
C30_Witness ==
    /\ gphase = "built"
    /\ Len(crafting_blacklists) = 1
    /\ crafting_blacklists[1].val.allow_core_blueprints
    /\ crafting_blacklists[1].val.blocked_inputs = {ScrapGuid}
    /\ crafting_blacklists[1].val.blocked_outputs = {GuidOf("base", 1)}
    /\ \E k \in 1..Len(edges) :
          /\ edges[k].source = ScrapGuid
          /\ edges[k].target = GuidOf("base", 1)

====
